---------------------------- MODULE Spec2Model ----------------------------
(***************************************************************************)
(* Irrigation Copilot: the forecast API client (retry loop), the forecast  *)
(* cache and forecast service (cache -> client -> parser), the /agent/run  *)
(* route with its in-memory rate limiter, the HTTP API with its API-key    *)
(* guard and error mapping, station matching, the irrigation engine and    *)
(* the agent tools, the feed parser and the interactive loop.              *)
(*                                                                         *)
(* The specifications share the module, one per component:                 *)
(*   SpecFetch    one call of fetch_forecast_raw, stepped per attempt      *)
(*   SpecService  concurrent get_forecast_points calls over one cache      *)
(*   SpecAgent    the POST /agent/run requests of one process              *)
(*   SpecApi      one request through the API: dependencies, validation,   *)
(*                route, exception handlers                                *)
(*   SpecPick     one call of pick_nearest_point                           *)
(*   SpecCache    set_forecast and get_forecast calls on one ForecastCache *)
(*   SpecTools    calls of the three agent tools                           *)
(*   SpecPlan     one call of compute_plan                                 *)
(*   SpecParse    one call of parse_forecast_points on a whole feed        *)
(*   SpecDiag     one call of get_selection_diagnostics                    *)
(*   SpecRepl     the interactive loop of scripts/run_agent.py, with the   *)
(*                fairness of a running interpreter                        *)
(* Each leaves the variables of the other components at their initial      *)
(* values.                                                                 *)
(***************************************************************************)
EXTENDS Integers, Sequences, FiniteSets, TLC

VARIABLES
    \* ---- fetch_forecast_raw (app/data/moag_client.py) ----
    f_pc,           \* position: "idle", "loop", "sleep", "done"
    f_date,         \* the date argument
    max_retries,    \* effective max_retries (after the settings default)
    retry_delay,    \* effective retry_delay in seconds
    attempt,        \* the loop variable of `for attempt in range(max_retries)`
    last_error,     \* last_error, NoError for Python's None
    f_outcome,      \* what the call returned or raised, NoOutcome while running
    events,         \* history: the requests sent and the sleeps made, in order
    \* ---- ForecastCache and get_forecast_points ----
    offline_setting,\* settings.offline_mode
    cache,          \* the forecast_cache table: date -> row or NoRow
    pc,             \* per caller: "idle", "lookup", "fetch", "store", "fallback", "done"
    date_str,       \* per caller: the date_str argument
    offline_mode,   \* per caller: the offline_mode argument ("None" when omitted)
    is_offline,     \* per caller: the effective offline mode
    payload,        \* per caller: the fetched payload
    fetch_error,    \* per caller: the MoAGClientError caught at line 95
    outcome,        \* per caller: what the call returned or raised
    trail,          \* per caller, history: the steps of the current call
    fetched,        \* history: date -> payloads that upstream fetches returned
    last_commit,    \* history: date -> payload of the last committed set_forecast
    calls,          \* history: number of calls started
    \* ---- POST /agent/run (app/api/routes/agent.py) ----
    now,            \* the wall clock read by time.time(), in seconds
    request_history,\* _request_history: client id -> list of timestamps
    r_pc,           \* position of the request in flight: "idle", "admitted", "built", "responded"
    r_caller,       \* who sent the request in flight
    r_now,          \* the value of time.time() read by its rate-limit check
    r_check,        \* what check_rate_limit returned for it: "none", "passed", "exceeded"
    response,       \* the response of the request in flight
    agent_built,    \* history: build_agent ran for the request in flight
    agent_invoked,  \* history: agent.structured_output ran for it
    accepted,       \* history: timestamps of all requests that passed the check
    accepted_callers,\* history: callers that had a request pass the check
    rejected_at,    \* history: the clock readings at which a request was refused
    \* ---- the HTTP application (app/api/main.py and the two routers) ----
    api_auth_key,   \* settings.api_auth_key, "" when no key is configured
    q_pc,           \* position of the request: "idle", "received", "validate", "route",
                    \* "raised", "responded"
    q_route,        \* its method and path
    q_header,       \* its X-API-Key header, "None" when absent
    q_body,         \* its JSON body
    q_failure,      \* the exception the route logic caught, NoFailure when none
    q_exc,          \* the exception that left the route or a dependency
    q_response,     \* the response sent
    q_work,         \* history: the work done for the request
    \* ---- pick_nearest_point (app/data/station_matching.py) ----
    user_lat,       \* the user_lat argument, in microdegrees
    user_lon,       \* the user_lon argument, in microdegrees
    points,         \* the points argument: a list of ForecastPoint
    picked,         \* what the call returned or raised, NotPicked before it
    \* ---- ForecastCache used directly (app/storage/cache.py) ----
    set_log,        \* history: date -> payload of the most recent set_forecast
    got,            \* the date and the result of the last get_forecast
    \* ---- the agent tools (app/agents/tools.py) ----
    t_call,         \* the tool called and its arguments
    t_result,       \* what the tool returned or raised, NotCalled before it
    \* ---- compute_plan (app/domain/irrigation_engine.py) ----
    profile,        \* the profile argument: a ProfileInput
    forecast,       \* the forecast argument: a ForecastPoint
    plan_outcome,   \* what the call returned or raised, NotComputed before it
    \* ---- parse_forecast_points on a whole feed (app/data/moag_parser.py) ----
    feed,           \* the payload argument, down to its records
    parsed,         \* what the call returned or raised, NotParsed before it
    \* ---- get_selection_diagnostics (app/data/station_matching.py) ----
    diagnostics,    \* what the call returned or raised, NotDiagnosed before it
    \* ---- the interactive loop of scripts/run_agent.py ----
    repl_pc,        \* position: "input", "turn", "except ...", "stopped"
    stdin,          \* the lines not yet read; end-of-input follows the last
    interrupts,     \* keyboard interrupts still to come
    user_input,     \* the line being processed
    transcript      \* the last thing the loop printed

vars == << f_pc, f_date, max_retries, retry_delay, attempt, last_error,
           f_outcome, events,
           offline_setting, cache, pc, date_str, offline_mode, is_offline, payload,
           fetch_error, outcome, trail, fetched, last_commit, calls,
           now, request_history, r_pc, r_caller, r_now, r_check, response,
           agent_built, agent_invoked, accepted, accepted_callers, rejected_at,
           api_auth_key, q_pc, q_route, q_header, q_body, q_failure, q_exc,
           q_response, q_work,
           user_lat, user_lon, points, picked,
           set_log, got,
           t_call, t_result,
           profile, forecast, plan_outcome,
           feed, parsed, diagnostics,
           repl_pc, stdin, interrupts, user_input, transcript >>

fetchVars == << f_pc, f_date, max_retries, retry_delay, attempt, last_error,
                f_outcome, events >>

serviceVars == << offline_setting, cache, pc, date_str, offline_mode, is_offline, payload,
                  fetch_error, outcome, trail, fetched, last_commit, calls >>

agentVars == << now, request_history, r_pc, r_caller, r_now, r_check, response,
                agent_built, agent_invoked, accepted, accepted_callers,
                rejected_at >>

apiVars == << api_auth_key, q_pc, q_route, q_header, q_body, q_failure, q_exc,
              q_response, q_work >>

pickVars == << user_lat, user_lon, points, picked >>

cacheVars == << set_log, got >>

toolVars == << t_call, t_result >>

planVars == << profile, forecast, plan_outcome >>

parseVars == << feed, parsed >>

diagVars == << diagnostics >>

replVars == << repl_pc, stdin, interrupts, user_input, transcript >>

lateVars == << parseVars, diagVars, replVars >>

\* the components that the forecast client, the forecast service and the
\* /agent/run route never touch
pureVars == << pickVars, cacheVars, toolVars, planVars, lateVars >>

---------------------------------------------------------------------------
(* Bounds of the model *)

\* largest max_retries argument explored
MaxRetriesArg == 4
\* largest retry_delay argument explored (seconds)
MaxDelayArg == 2
\* number of get_forecast_points calls started in one behaviour
MaxCalls == 3
\* number of POST /agent/run requests that pass the rate-limit check
MaxAccepted == 12
\* longest list of forecast points given to pick_nearest_point
MaxPoints == 3
\* set_forecast calls made on one cache database
MaxSets == 3
\* longest list of locations in one area of a feed
MaxLocations == 2
\* the clock stops advancing at this many seconds
MaxClock == 60

(* Program constants *)

\* settings.moag_retries
MoagRetries == 3
\* settings.moag_backoff_base_seconds (1.0)
MoagBackoffBaseSeconds == 1
RATE_LIMIT_WINDOW == 60
RATE_LIMIT_MAX_REQUESTS == 10

---------------------------------------------------------------------------
(* Values *)

\* Python's None where an argument may be omitted
ArgNone == -1

\* A valid and an invalid date string (validate_date_format)
ValidDate == "2024-01-15"
BadDate == "15/01/2024"
Dates == {ValidDate, BadDate}

\* ^\d{4}-\d{2}-\d{2}$
MatchesDatePattern(d) == d = ValidDate

\* What response.json() can return: any JSON value.  jtype is the type of
\* the top-level value; ter the shape of its "tempEvapRecord" member; points
\* the records under tempEvapRecord.areas; src tells two feeds apart.
\* PyNone is Python's None: JSON null decodes to it, and it is also what
\* dict.get and ForecastCache.get_forecast give for "nothing there".
PyNone == [jtype |-> "null", ter |-> "absent", points |-> 0, src |-> 0]
EmptyObject == [jtype |-> "object", ter |-> "absent", points |-> 0, src |-> 0]
TopLevelArray == [jtype |-> "array", ter |-> "absent", points |-> 0, src |-> 0]
BadRecordObject == [jtype |-> "object", ter |-> "array", points |-> 0, src |-> 0]
FeedA == [jtype |-> "object", ter |-> "object", points |-> 2, src |-> 1]
FeedB == [jtype |-> "object", ter |-> "object", points |-> 1, src |-> 2]
Payloads == {PyNone, EmptyObject, TopLevelArray, BadRecordObject, FeedA, FeedB}

\* What one requests.get attempt can meet
TransportFailures == {"timeout", "network"}
Responses == TransportFailures \cup {"http_error", "bad_json", "ok"}

\* Outcomes of a call: a returned value or a raised error
NoOutcome == [kind |-> "running", detail |-> "", at |-> 0, value |-> PyNone, date |-> ""]
NoError == [kind |-> "None", detail |-> "", at |-> 0, value |-> PyNone, date |-> ""]
Returned(v) == [kind |-> "return", detail |-> "", at |-> 0, value |-> v, date |-> ""]
Raised(k, dt, n, d) == [kind |-> k, detail |-> dt, at |-> n, value |-> PyNone, date |-> d]

\* MoAGClientError built in attempt number n (1-based; 0: after the loop)
MoAGClientError(dt, n, d) == Raised("MoAGClientError", dt, n, d)

---------------------------------------------------------------------------
(* fetch_forecast_raw: app/data/moag_client.py *)

Request(resp, p) == [ev |-> "request", resp |-> resp, secs |-> 0, body |-> p]
Sleep(secs) == [ev |-> "sleep", resp |-> "", secs |-> secs, body |-> PyNone]

RequestsSent(evs) == Cardinality({i \in 1..Len(evs) : evs[i].ev = "request"})

\* `for attempt in range(max_retries)`: the loop body runs for this attempt
LoopOffByOne(a, mr) == a <= mr
LoopContinues(a, mr) == a < mr

\* the except clauses of lines 144-157 catch this failure and the loop goes on
RetriesEverything(resp) == resp # "ok"
IsRetried(resp) == resp \in TransportFailures

\* `if attempt < max_retries - 1`
SleepsAfterEveryAttempt(a, mr) == TRUE
SleepsBeforeRetry(a, mr) == a < mr - 1

\* `retry_delay * (attempt + 1)`
ExponentialBackoff(rd, a) == rd * (2 ^ a)
BackoffSeconds(rd, a) == rd * (a + 1)

\* the error an attempt raises or records, by what the attempt met
AttemptError(resp, a, d) ==
    CASE resp = "http_error" -> MoAGClientError("http_status", a + 1, d)
      [] resp = "bad_json"   -> MoAGClientError("json_decode", a + 1, d)
      [] resp = "timeout"    -> MoAGClientError("timeout", a + 1, d)
      [] resp = "network"    -> MoAGClientError("network", a + 1, d)

\* lines 167-170
ExhaustedError(le, mr, d) ==
    IF le # NoError THEN le ELSE MoAGClientError("failed_after_attempts", 0, d)

\* lines 82-109: validate the date, take the settings defaults, enter the loop
FetchCall(d, mr, rd) ==
    /\ f_pc = "idle"
    /\ f_date' = d
    /\ max_retries' = IF mr = ArgNone THEN MoagRetries ELSE mr
    /\ retry_delay' = IF rd = ArgNone THEN MoagBackoffBaseSeconds ELSE rd
    /\ IF MatchesDatePattern(d)
         THEN /\ f_pc' = "loop"
              /\ f_outcome' = NoOutcome
         ELSE /\ f_pc' = "done"
              /\ f_outcome' = Raised("ValueError", "date_format", 0, d)
    /\ attempt' = 0
    /\ last_error' = NoError
    /\ events' = << >>
    /\ UNCHANGED << serviceVars, agentVars, apiVars, pureVars >>

\* lines 110-161: one pass of the loop body up to the backoff
Attempt(resp, p) ==
    /\ f_pc = "loop"
    /\ LoopContinues(attempt, max_retries)
    /\ events' = Append(events, Request(resp, IF resp = "ok" THEN p ELSE PyNone))
    /\ IF resp = "ok"
         THEN /\ f_outcome' = Returned(p)
              /\ f_pc' = "done"
              /\ UNCHANGED << attempt, last_error >>
         ELSE IF IsRetried(resp)
           THEN /\ last_error' = AttemptError(resp, attempt, f_date)
                /\ f_outcome' = f_outcome
                /\ IF SleepsBeforeRetry(attempt, max_retries)
                     THEN f_pc' = "sleep" /\ attempt' = attempt
                     ELSE f_pc' = "loop" /\ attempt' = attempt + 1
           ELSE /\ f_outcome' = AttemptError(resp, attempt, f_date)
                /\ f_pc' = "done"
                /\ UNCHANGED << attempt, last_error >>
    /\ UNCHANGED << f_date, max_retries, retry_delay >>
    /\ UNCHANGED << serviceVars, agentVars, apiVars, pureVars >>

\* lines 163-165: time.sleep, then the next pass
BackoffWait ==
    /\ f_pc = "sleep"
    /\ events' = Append(events, Sleep(BackoffSeconds(retry_delay, attempt)))
    /\ attempt' = attempt + 1
    /\ f_pc' = "loop"
    /\ UNCHANGED << f_date, max_retries, retry_delay, last_error, f_outcome >>
    /\ UNCHANGED << serviceVars, agentVars, apiVars, pureVars >>

\* lines 167-170: the loop is over without a return
Exhausted ==
    /\ f_pc = "loop"
    /\ ~LoopContinues(attempt, max_retries)
    /\ f_outcome' = ExhaustedError(last_error, max_retries, f_date)
    /\ f_pc' = "done"
    /\ UNCHANGED << f_date, max_retries, retry_delay, attempt, last_error, events >>
    /\ UNCHANGED << serviceVars, agentVars, apiVars, pureVars >>

\* The whole call as a function of what each attempt meets: resps[i] is met
\* by attempt i, p is the body of a successful response.
RECURSIVE FetchLoop(_, _, _, _, _, _)
FetchLoop(d, mr, a, le, resps, p) ==
    IF ~LoopContinues(a, mr) THEN ExhaustedError(le, mr, d)
    ELSE IF resps[a + 1] = "ok" THEN Returned(p)
    ELSE IF IsRetried(resps[a + 1])
      THEN FetchLoop(d, mr, a + 1, AttemptError(resps[a + 1], a, d), resps, p)
      ELSE AttemptError(resps[a + 1], a, d)

FetchForecastRaw(d, mr, resps, p) ==
    IF ~MatchesDatePattern(d) THEN Raised("ValueError", "date_format", 0, d)
    ELSE FetchLoop(d, mr, 0, NoError, resps, p)

---------------------------------------------------------------------------
(* ForecastCache: app/storage/cache.py *)

\* json.dumps and json.loads: the text of a JSON value and the value of a
\* JSON text.  The payloads stored are values response.json() produced, and
\* on those decoding inverts encoding; JSON null decodes to Python's None.
JsonDumps(v) == [json_text_of |-> v]
JsonLoads(t) == t.json_text_of

\* a row of forecast_cache (fetched_at is written and never read)
Row(p) == [payload_json |-> JsonDumps(p)]

HasRow(tbl, d) == d \in DOMAIN tbl

GetAnyRow(tbl, d) ==
    IF DOMAIN tbl = {} THEN PyNone
    ELSE JsonLoads(tbl[CHOOSE x \in DOMAIN tbl : TRUE].payload_json)
\* get_forecast: the decoded payload_json of the row, None when no row
GetForecast(tbl, d) == IF HasRow(tbl, d) THEN JsonLoads(tbl[d].payload_json) ELSE PyNone

\* set_forecast: INSERT OR REPLACE of the whole row, committed as one transaction
InsertOrIgnore(tbl, d, p) ==
    [x \in DOMAIN tbl \cup {d} |-> IF x \in DOMAIN tbl THEN tbl[x] ELSE Row(p)]
SetForecast(tbl, d, p) ==
    [x \in DOMAIN tbl \cup {d} |-> IF x = d THEN Row(p) ELSE tbl[x]]

---------------------------------------------------------------------------
(* parse_forecast_points: app/data/moag_parser.py, the traversal down to  *)
(* tempEvapRecord.areas                                                   *)

\* the list of ForecastPoint built from a payload's records
Points(p) == [jtype |-> "points", ter |-> "", points |-> p.points, src |-> p.src]

ParseForecastPoints(p) ==
    IF p.jtype # "object"
      THEN Raised("ValueError", "parse_payload", 0, "")   \* payload.get fails
    ELSE IF p.ter = "absent"
      THEN Returned(Points(p))                            \* return []
    ELSE IF p.ter # "object"
      THEN Raised("ValueError", "parse_payload", 0, "")   \* temp_evap_record.get fails
    ELSE Returned(Points(p))

---------------------------------------------------------------------------
(* get_forecast_points: app/data/forecast_service.py *)

Callers == {"c1", "c2"}
Today == ValidDate
OfflineArgs == {"None", "True", "False"}

\* `offline_mode if offline_mode is not None else settings.offline_mode`
OfflineFromSettingOnly(arg, setting) == setting
EffectiveOffline(arg, setting) == IF arg # "None" THEN arg = "True" ELSE setting

\* what fetch_forecast_raw(date_str) can do, with the settings defaults
RespSeqs == [1..MoagRetries -> Responses]
FetchResults ==
    [d \in Dates |->
        {FetchForecastRaw(d, MoagRetries, rs, p) : rs \in RespSeqs, p \in Payloads}]

Step(op, row, v) == [op |-> op, row |-> row, value |-> v]
Ops(t) == {t[i].op : i \in 1..Len(t)}

\* `if stale_payload is not None` fails: the fallback read gives up
FallbackMisses(stale) == stale = PyNone

\* lines 64-70
Call(c, d, off) ==
    /\ pc[c] = "idle"
    /\ calls < MaxCalls
    /\ calls' = calls + 1
    /\ date_str' = [date_str EXCEPT ![c] = IF d = "None" THEN Today ELSE d]
    /\ offline_mode' = [offline_mode EXCEPT ![c] = off]
    /\ is_offline' = [is_offline EXCEPT ![c] = EffectiveOffline(off, offline_setting)]
    /\ pc' = [pc EXCEPT ![c] = "lookup"]
    /\ UNCHANGED << offline_setting, cache, payload, fetch_error, outcome, trail,
                    fetched, last_commit >>
    /\ UNCHANGED << fetchVars, agentVars, apiVars, pureVars >>

\* lines 72-88: the first cache read and what follows from it
Lookup(c) ==
    /\ pc[c] = "lookup"
    /\ LET cached_payload == GetForecast(cache, date_str[c])
       IN  /\ trail' = [trail EXCEPT ![c] =
                          Append(@, Step("read", HasRow(cache, date_str[c]), cached_payload))]
           /\ IF cached_payload # PyNone
                THEN /\ outcome' = [outcome EXCEPT ![c] = ParseForecastPoints(cached_payload)]
                     /\ pc' = [pc EXCEPT ![c] = "done"]
                ELSE IF is_offline[c]
                  THEN /\ outcome' = [outcome EXCEPT ![c] =
                                        Raised("OfflineModeError", "cache_miss", 0, date_str[c])]
                       /\ pc' = [pc EXCEPT ![c] = "done"]
                  ELSE /\ outcome' = outcome
                       /\ pc' = [pc EXCEPT ![c] = "fetch"]
    /\ UNCHANGED << offline_setting, cache, date_str, offline_mode, is_offline, payload,
                    fetch_error, fetched, last_commit, calls >>
    /\ UNCHANGED << fetchVars, agentVars, apiVars, pureVars >>

\* line 90 and the except clause of line 95
Fetch(c) ==
    /\ pc[c] = "fetch"
    /\ \E r \in FetchResults[date_str[c]] :
          /\ trail' = [trail EXCEPT ![c] = Append(@, Step("fetch", FALSE, r.value))]
          /\ IF r.kind = "return"
               THEN /\ payload' = [payload EXCEPT ![c] = r.value]
                    /\ fetched' = [fetched EXCEPT ![date_str[c]] = @ \cup {r.value}]
                    /\ pc' = [pc EXCEPT ![c] = "store"]
                    /\ UNCHANGED << fetch_error, outcome >>
               ELSE IF r.kind = "MoAGClientError"
                 THEN /\ fetch_error' = [fetch_error EXCEPT ![c] = r]
                      /\ pc' = [pc EXCEPT ![c] = "fallback"]
                      /\ UNCHANGED << payload, fetched, outcome >>
                 ELSE /\ outcome' = [outcome EXCEPT ![c] = r]
                      /\ pc' = [pc EXCEPT ![c] = "done"]
                      /\ UNCHANGED << payload, fetched, fetch_error >>
    /\ UNCHANGED << offline_setting, cache, date_str, offline_mode, is_offline,
                    last_commit, calls >>
    /\ UNCHANGED << fetchVars, agentVars, apiVars, pureVars >>

\* lines 92-94: set_forecast commits, then the payload is parsed
Store(c) ==
    /\ pc[c] = "store"
    /\ cache' = SetForecast(cache, date_str[c], payload[c])
    /\ last_commit' = [x \in DOMAIN last_commit \cup {date_str[c]} |->
                          IF x = date_str[c] THEN payload[c] ELSE last_commit[x]]
    /\ trail' = [trail EXCEPT ![c] = Append(@, Step("write", TRUE, payload[c]))]
    /\ outcome' = [outcome EXCEPT ![c] = ParseForecastPoints(payload[c])]
    /\ pc' = [pc EXCEPT ![c] = "done"]
    /\ UNCHANGED << offline_setting, date_str, offline_mode, is_offline, payload,
                    fetch_error, fetched, calls >>
    /\ UNCHANGED << fetchVars, agentVars, apiVars, pureVars >>

\* lines 96-103: the fallback read after a failed fetch
Fallback(c) ==
    /\ pc[c] = "fallback"
    /\ LET stale_payload == GetForecast(cache, date_str[c])
       IN  /\ trail' = [trail EXCEPT ![c] =
                          Append(@, Step("read", HasRow(cache, date_str[c]), stale_payload))]
           /\ outcome' = [outcome EXCEPT ![c] =
                            IF FallbackMisses(stale_payload)
                              THEN fetch_error[c]
                              ELSE ParseForecastPoints(stale_payload)]
    /\ pc' = [pc EXCEPT ![c] = "done"]
    /\ UNCHANGED << offline_setting, cache, date_str, offline_mode, is_offline, payload,
                    fetch_error, fetched, last_commit, calls >>
    /\ UNCHANGED << fetchVars, agentVars, apiVars, pureVars >>

\* the call is over: its caller has the outcome, the locals are gone
Finish(c) ==
    /\ pc[c] = "done"
    /\ pc' = [pc EXCEPT ![c] = "idle"]
    /\ date_str' = [date_str EXCEPT ![c] = ""]
    /\ offline_mode' = [offline_mode EXCEPT ![c] = "None"]
    /\ is_offline' = [is_offline EXCEPT ![c] = FALSE]
    /\ payload' = [payload EXCEPT ![c] = PyNone]
    /\ fetch_error' = [fetch_error EXCEPT ![c] = NoError]
    /\ outcome' = [outcome EXCEPT ![c] = NoOutcome]
    /\ trail' = [trail EXCEPT ![c] = << >>]
    /\ UNCHANGED << offline_setting, cache, fetched, last_commit, calls >>
    /\ UNCHANGED << fetchVars, agentVars, apiVars, pureVars >>

---------------------------------------------------------------------------
(* map_domain_error_to_http: app/api/errors.py *)

HttpResponse(st, code) == [status |-> st, code |-> code]
NoResponse == HttpResponse(0, "")

\* an exception: its class and what its message mentions
ErrorClasses == {"UnknownCropError", "InvalidCoordinatesError", "ValueError",
                 "OfflineModeError", "MoAGClientError", "Exception"}
Mentions == {"none", "rate limit", "quota"}
Failures == [cls : ErrorClasses, mentions : Mentions]

\* isinstance(error, ValueError): UnknownCropError and InvalidCoordinatesError
\* derive from ValueError
IsValueError(e) == e.cls \in {"ValueError", "UnknownCropError", "InvalidCoordinatesError"}

MessageRuleFirst(e) ==
    IF e.mentions \in {"rate limit", "quota"} THEN HttpResponse(429, "RATE_LIMIT_EXCEEDED")
    ELSE IF e.cls = "UnknownCropError" THEN HttpResponse(400, "UNKNOWN_CROP")
    ELSE IF IsValueError(e) THEN HttpResponse(422, "VALIDATION_ERROR")
    ELSE IF e.cls \in {"OfflineModeError", "MoAGClientError"}
      THEN HttpResponse(503, "UPSTREAM_SERVICE_ERROR")
    ELSE HttpResponse(500, "INTERNAL_SERVER_ERROR")
MapDomainErrorToHttp(e) ==
    IF e.cls = "UnknownCropError" THEN HttpResponse(400, "UNKNOWN_CROP")
    ELSE IF IsValueError(e) THEN HttpResponse(422, "VALIDATION_ERROR")
    ELSE IF e.cls = "OfflineModeError" THEN HttpResponse(503, "OFFLINE_CACHE_MISS")
    ELSE IF e.cls = "MoAGClientError" THEN HttpResponse(503, "UPSTREAM_SERVICE_ERROR")
    ELSE IF e.mentions \in {"rate limit", "quota"}
      THEN HttpResponse(429, "RATE_LIMIT_EXCEEDED")
    ELSE HttpResponse(500, "INTERNAL_SERVER_ERROR")

---------------------------------------------------------------------------
(* check_rate_limit and run_agent: app/api/routes/agent.py *)

Clients == {"alice", "bob"}

\* the clock moves in half windows: a stored timestamp is met at the ages
\* 0, RATE_LIMIT_WINDOW / 2 and RATE_LIMIT_WINDOW, on both sides of `<`
ClockSteps == {RATE_LIMIT_WINDOW \div 2}

\* run_agent calls check_rate_limit() with no argument: client_id = "default"
KeyPerCaller(caller) == caller
ClientKey(caller) == "default"

\* `now - t < RATE_LIMIT_WINDOW`
InWindow(t, n) == n - t < RATE_LIMIT_WINDOW

\* `len(_request_history[client_id]) >= RATE_LIMIT_MAX_REQUESTS`
AtLimit(h) == Len(h) >= RATE_LIMIT_MAX_REQUESTS

\* `if not check_rate_limit(): raise HTTPException(...)`
GoesOnRegardless(allowed) == TRUE
GoesOn(allowed) == allowed

\* lines 29-35: the list of the key, filtered to the current window
CurrentWindow(hist, key, n) ==
    LET old == IF key \in DOMAIN hist THEN hist[key] ELSE << >>
    IN  SelectSeq(old, LAMBDA t : InWindow(t, n))

\* lines 37-41: only a request that passes is appended
RecordedAlways(window, n, allowed) == Append(window, n)
Recorded(window, n, allowed) == IF allowed THEN Append(window, n) ELSE window

\* the HTTPException of lines 51-59, flattened by custom_http_exception_handler
TooManyRequests == HttpResponse(429, "RATE_LIMIT_EXCEEDED")
Ok200 == HttpResponse(200, "")

\* time passes
Tick(dt) ==
    /\ now + dt <= MaxClock
    /\ now' = now + dt
    /\ UNCHANGED << request_history, r_pc, r_caller, r_now, r_check, response,
                    agent_built, agent_invoked, accepted, accepted_callers,
                    rejected_at >>
    /\ UNCHANGED << fetchVars, serviceVars, apiVars, pureVars >>

\* a POST /agent/run request reaches run_agent
Receive(caller) ==
    /\ r_pc = "idle"
    /\ Len(accepted) < MaxAccepted
    /\ r_pc' = "received"
    /\ r_caller' = caller
    /\ UNCHANGED << now, request_history, r_now, r_check, response, agent_built,
                    agent_invoked, accepted, accepted_callers,
                    rejected_at >>
    /\ UNCHANGED << fetchVars, serviceVars, apiVars, pureVars >>

\* lines 50-59 with check_rate_limit (lines 26-41)
RateLimitCheck ==
    /\ r_pc = "received"
    /\ LET key == ClientKey(r_caller)
           window == CurrentWindow(request_history, key, now)
           allowed == ~AtLimit(window)
           stored == Recorded(window, now, allowed)
       IN  /\ request_history' =
                  [k \in DOMAIN request_history \cup {key} |->
                      IF k = key THEN stored ELSE request_history[k]]
           /\ r_now' = now
           /\ r_check' = IF allowed THEN "passed" ELSE "exceeded"
           /\ accepted' = IF allowed THEN Append(accepted, now) ELSE accepted
           /\ accepted_callers' = IF allowed THEN accepted_callers \cup {r_caller}
                                             ELSE accepted_callers
           /\ rejected_at' = IF allowed THEN rejected_at ELSE rejected_at \cup {now}
           /\ IF GoesOn(allowed)
                THEN r_pc' = "admitted" /\ response' = response
                ELSE r_pc' = "responded" /\ response' = TooManyRequests
    /\ UNCHANGED << now, r_caller, agent_built, agent_invoked >>
    /\ UNCHANGED << fetchVars, serviceVars, apiVars, pureVars >>

\* line 68: build_agent() returns the agent
BuildAgent ==
    /\ r_pc = "admitted"
    /\ agent_built' = TRUE
    /\ r_pc' = "built"
    /\ UNCHANGED << now, request_history, r_caller, r_now, r_check, response,
                    agent_invoked, accepted, accepted_callers,
                    rejected_at >>
    /\ UNCHANGED << fetchVars, serviceVars, apiVars, pureVars >>

\* line 68 raising, lines 86-88
BuildAgentFails(e) ==
    /\ r_pc = "admitted"
    /\ agent_built' = TRUE
    /\ response' = MapDomainErrorToHttp(e)
    /\ r_pc' = "responded"
    /\ UNCHANGED << now, request_history, r_caller, r_now, r_check,
                    agent_invoked, accepted, accepted_callers,
                    rejected_at >>
    /\ UNCHANGED << fetchVars, serviceVars, apiVars, pureVars >>

\* lines 82-84: agent.structured_output returns the result
StructuredOutput ==
    /\ r_pc = "built"
    /\ agent_invoked' = TRUE
    /\ response' = Ok200
    /\ r_pc' = "responded"
    /\ UNCHANGED << now, request_history, r_caller, r_now, r_check,
                    agent_built, accepted, accepted_callers,
                    rejected_at >>
    /\ UNCHANGED << fetchVars, serviceVars, apiVars, pureVars >>

\* line 82 raising, lines 86-88
StructuredOutputFails(e) ==
    /\ r_pc = "built"
    /\ agent_invoked' = TRUE
    /\ response' = MapDomainErrorToHttp(e)
    /\ r_pc' = "responded"
    /\ UNCHANGED << now, request_history, r_caller, r_now, r_check,
                    agent_built, accepted, accepted_callers,
                    rejected_at >>
    /\ UNCHANGED << fetchVars, serviceVars, apiVars, pureVars >>

\* the response is sent; the route is ready for the next request
SendResponse ==
    /\ r_pc = "responded"
    /\ r_pc' = "idle"
    /\ r_caller' = ""
    /\ r_now' = 0
    /\ r_check' = "none"
    /\ response' = NoResponse
    /\ agent_built' = FALSE
    /\ agent_invoked' = FALSE
    /\ UNCHANGED << now, request_history, accepted, accepted_callers,
                    rejected_at >>
    /\ UNCHANGED << fetchVars, serviceVars, apiVars, pureVars >>

---------------------------------------------------------------------------
(* Optional values and numbers *)

\* an Optional field: Python's None, or a present value
None == {}
Some(v) == {v}
IsNone(x) == x = {}
ValueOf(x) == CHOOSE v \in x : TRUE
\* `not x` on an Optional[float] and on an Optional[str]
FalsyNum(x) == IsNone(x) \/ ValueOf(x) = 0
FalsyStr(x) == IsNone(x) \/ ValueOf(x) = ""
\* `x or ""`
OrEmpty(x) == IF FalsyStr(x) THEN "" ELSE ValueOf(x)

\* floats are kept in hundredths: 115 stands for 1.15
FMul(a, b) == (a * b) \div 100
FDiv(a, b) == (a * 100) \div b
Max(a, b) == IF a >= b THEN a ELSE b

---------------------------------------------------------------------------
(* Coefficient catalog: app/domain/kc_catalog.py *)

\* str.lower().strip() on the names used here
LowerStrip(s) == IF s = " Tomato" THEN "tomato" ELSE s

\* the crop records and the plant-profile records loaded from data/coefficients
CropCatalog ==
    [c \in {"tomato"} |-> [kc_initial |-> 60, kc_mid |-> 115, kc_end |-> 90]]
PlantCatalog ==
    [c \in {"leafy_houseplant"} |-> [kc_value |-> 100]]

KcOk(v) == [raised |-> "", kc |-> v]
KcRaised(cls) == [raised |-> cls, kc |-> 0]

\* stage_map of get_kc_stage
StageMap == [s \in {"initial", "mid", "late"} |->
                CASE s = "initial" -> "kc_initial" [] s = "mid" -> "kc_mid"
                  [] OTHER -> "kc_end"]

GetKcStage(crop_name, stage) ==
    LET crop_key == LowerStrip(crop_name)
    IN  IF crop_key \notin DOMAIN CropCatalog THEN KcRaised("UnknownCropError")
        ELSE IF stage \notin DOMAIN StageMap THEN KcRaised("ValueError")
        ELSE KcOk(CropCatalog[crop_key][StageMap[stage]])

GetPlantKc(profile_name) ==
    LET profile_key == LowerStrip(profile_name)
    IN  IF profile_key \notin DOMAIN PlantCatalog THEN KcRaised("UnknownCropError")
        ELSE KcOk(PlantCatalog[profile_key].kc_value)

---------------------------------------------------------------------------
(* Domain models: app/domain/models.py *)

ForecastPoint(date, lat, lon, evap_mm, name, area) ==
    [date |-> date, lat |-> lat, lon |-> lon, evap_mm |-> evap_mm,
     name |-> name, geographic_area |-> area]

\* ProfileInput.validate_mode_fields and the bounds of efficiency
ProfileInputValid(p) ==
    /\ p.mode \in {"farm", "plant"}
    /\ IsNone(p.efficiency) \/ (0 <= ValueOf(p.efficiency) /\ ValueOf(p.efficiency) <= 100)
    /\ p.mode = "farm" =>
          /\ ~(FalsyNum(p.area_m2) /\ FalsyNum(p.area_dunam))
          /\ ~FalsyStr(p.crop_name)
    /\ p.mode = "plant" =>
          /\ ~(FalsyNum(p.pot_volume_liters) /\ FalsyNum(p.pot_diameter_cm))
          /\ ~FalsyStr(p.plant_profile_name)

IrrigationPlan(date, mode, lpd, lpdunam, ml, pulses, kc, eff) ==
    [date |-> date, mode |-> mode, liters_per_day |-> lpd, liters_per_dunam |-> lpdunam,
     ml_per_day |-> ml, pulses_per_day |-> pulses, coefficient_value_used |-> kc,
     inputs_used |-> [efficiency |-> eff]]
NoPlan == IrrigationPlan("", "", None, None, None, 0, 0, 0)

ProfileInput(mode, area_m2, area_dunam, crop, stage, pot_l, pot_cm, plant, io, method, eff) ==
    [mode |-> mode, area_m2 |-> area_m2, area_dunam |-> area_dunam, crop_name |-> crop,
     stage |-> stage, pot_volume_liters |-> pot_l, pot_diameter_cm |-> pot_cm,
     plant_profile_name |-> plant, indoor_outdoor |-> io, irrigation_method |-> method,
     efficiency |-> eff]
NoProfile == ProfileInput("", None, None, None, None, None, None, None, None, None, None)

---------------------------------------------------------------------------
(* compute_plan: app/domain/irrigation_engine.py *)

PlanReturned(pl) == [raised |-> "", plan |-> pl]
PlanRaised(cls) == [raised |-> cls, plan |-> NoPlan]
NotComputed == [raised |-> "not computed", plan |-> NoPlan]

\* lines 36-45 and 81-95: the area in m2, None when the code raises ValueError
ResolveArea(p) ==
    LET a == IF p.mode = "farm"
               THEN IF ~IsNone(p.area_m2) THEN p.area_m2
                    ELSE IF ~IsNone(p.area_dunam)
                      THEN IF ValueOf(p.area_dunam) < 0 THEN None
                           ELSE Some(ValueOf(p.area_dunam) * 1000)
                    ELSE None
               ELSE IF ~IsNone(p.pot_volume_liters)
                      THEN Some(FMul(ValueOf(p.pot_volume_liters), 1))
                    ELSE IF ~IsNone(p.pot_diameter_cm)
                      THEN LET radius_m == FDiv(FDiv(ValueOf(p.pot_diameter_cm), 10000), 200)
                           IN  Some(FMul(FMul(314, radius_m), radius_m))
                    ELSE None
    IN  IF IsNone(a) \/ ValueOf(a) <= 0 THEN None ELSE a

\* lines 47-74 and 97-110: the coefficient lookup with its except clauses.
\* `except UnknownCropError` raises a plain ValueError ("... is not supported")
RewrapKcError(r) == IF r.raised = "" THEN r ELSE KcRaised("ValueError")

ResolveKc(p) ==
    IF p.mode = "farm"
      THEN RewrapKcError(GetKcStage(OrEmpty(p.crop_name),
                                   IF FalsyStr(p.stage) THEN "mid" ELSE ValueOf(p.stage)))
      ELSE RewrapKcError(GetPlantKc(OrEmpty(p.plant_profile_name)))

\* str.lower() on the irrigation methods used here
Lower(s) == IF s = "Drip" THEN "drip" ELSE s

\* lines 112-127: the efficiency, None when the code raises ValueError
MethodBeforeExplicit(p) ==
    LET method == Lower(OrEmpty(p.irrigation_method))
        e == IF method = "drip" THEN 90
             ELSE IF method = "sprinkler" THEN 75
             ELSE IF ~IsNone(p.efficiency) THEN ValueOf(p.efficiency)
             ELSE IF p.mode = "farm" THEN 85 ELSE 100
    IN  IF e <= 0 \/ e > 100 THEN None ELSE Some(e)
ResolveEfficiency(p) ==
    LET method == Lower(OrEmpty(p.irrigation_method))
        e == IF ~IsNone(p.efficiency) THEN ValueOf(p.efficiency)
             ELSE IF method = "drip" THEN 90
             ELSE IF method = "sprinkler" THEN 75
             ELSE IF p.mode = "farm" THEN 85 ELSE 100
    IN  IF e <= 0 \/ e > 100 THEN None ELSE Some(e)

\* lines 135-158
PulsesPerDay(p, f, liters_per_day, area_m2) ==
    IF p.mode = "farm"
      THEN IF FDiv(liters_per_day, area_m2) > 1000 THEN 2 ELSE 1
      ELSE IF p.indoor_outdoor = Some("outdoor") /\ f.evap_mm > 800 THEN 2 ELSE 1

\* lines 183-211
FillsBothGroups(p, f, liters_per_day, area_m2, pulses, kc, efficiency) ==
    IrrigationPlan(f.date, p.mode, Some(liters_per_day),
                   Some(FMul(FDiv(liters_per_day, area_m2), 100000)),
                   IF p.mode = "farm" THEN None ELSE Some(liters_per_day * 1000),
                   pulses, kc, efficiency)
BuildOutput(p, f, liters_per_day, area_m2, pulses, kc, efficiency) ==
    IF p.mode = "farm"
      THEN IrrigationPlan(f.date, "farm", Some(liters_per_day),
                          Some(FMul(FDiv(liters_per_day, area_m2), 100000)),
                          None, pulses, kc, efficiency)
      ELSE IrrigationPlan(f.date, "plant", None, None,
                          Some(liters_per_day * 1000), pulses, kc, efficiency)

ComputePlan(p, f) ==
    LET area == ResolveArea(p)
        kc == ResolveKc(p)
        eff == ResolveEfficiency(p)
    IN  IF IsNone(area) THEN PlanRaised("ValueError")
        ELSE IF kc.raised # "" THEN PlanRaised(kc.raised)
        ELSE IF IsNone(eff) THEN PlanRaised("ValueError")
        ELSE IF FMul(f.evap_mm, kc.kc) < 0 THEN PlanRaised("ValueError")  \* mm_to_liters
        ELSE LET base_liters == FMul(FMul(f.evap_mm, kc.kc), ValueOf(area))
                 liters_per_day == Max(0, FDiv(base_liters, ValueOf(eff)))
             IN  PlanReturned(BuildOutput(p, f, liters_per_day, ValueOf(area),
                                          PulsesPerDay(p, f, liters_per_day, ValueOf(area)),
                                          kc.kc, ValueOf(eff)))

\* the profiles ProfileInput accepts, over a few values of every field
\* (areas 100 m2 and 5 dunam, a 2 l pot and a 20 cm pot)
FarmProfiles ==
    {ProfileInput("farm", m2, du, crop, stage, None, None, None, Some("indoor"), method, eff) :
        m2 \in {None, Some(10000)}, du \in {None, Some(500)},
        crop \in {Some("tomato"), Some("dragonfruit")},
        stage \in {None, Some("late"), Some("ripe")},
        method \in {None, Some("drip"), Some("Drip"), Some("sprinkler"), Some("flood")},
        eff \in {None, Some(0), Some(50), Some(100)}}
PlantProfiles ==
    {ProfileInput("plant", None, None, None, None, pot_l, pot_cm, plant, io, method, eff) :
        pot_l \in {None, Some(200)}, pot_cm \in {None, Some(2000)},
        plant \in {Some("leafy_houseplant"), Some("fern")},
        io \in {Some("indoor"), Some("outdoor")},
        method \in {None, Some("drip"), Some("Drip")},
        eff \in {None, Some(0), Some(50), Some(100)}}
Profiles == {pr \in FarmProfiles \cup PlantProfiles : ProfileInputValid(pr)}

\* forecasts of 0, 5, 9 and 12 mm, and one of -1 mm (evap_mm has no range)
Forecasts ==
    {ForecastPoint(ValidDate, 0, 0, evap, Some("a"), Some("north")) :
        evap \in {0, 500, 900, 1200, -100}}

\* compute_plan(profile, forecast)
Compute ==
    /\ plan_outcome = NotComputed
    /\ plan_outcome' = ComputePlan(profile, forecast)
    /\ UNCHANGED << profile, forecast >>
    /\ UNCHANGED << fetchVars, serviceVars, agentVars, apiVars, pickVars, cacheVars,
                    toolVars, lateVars >>

---------------------------------------------------------------------------
(* Station matching: app/data/station_matching.py *)

\* coordinates are kept in microdegrees and distances in micrometres
\* (EPSILON_KM = 0.001 km)
EPSILON_KM == 1000000

\* 90 and 180 degrees
LatLimit == 90 * 1000000
LonLimit == 180 * 1000000

\* _validate_user_coordinates raises ValueError, _is_valid_coordinate says no
IsValidCoordinate(lat, lon) ==
    /\ -LatLimit <= lat /\ lat <= LatLimit
    /\ -LonLimit <= lon /\ lon <= LonLimit

Abs(x) == IF x < 0 THEN -x ELSE x

\* the integer square root, for separations of a few metres
Isqrt(n) == CHOOSE r \in 0..(n + 1) : r * r <= n /\ n < (r + 1) * (r + 1)

\* haversine_km between in-range coordinates a few metres apart near the
\* equator: the great-circle distance is earth_radius_km * c with
\* c = sqrt(dlat^2 + dlon^2) in radians, which is 111195 micrometres for each
\* microdegree (6371.0 km * pi / 180); on one meridian the formula is exact
HaversineKm(lat1, lon1, lat2, lon2) ==
    LET dlat == Abs(lat2 - lat1)
        dlon == Abs(lon2 - lon1)
    IN  IF dlon = 0 THEN dlat * 111195
        ELSE IF dlat = 0 THEN dlon * 111195
        ELSE (Isqrt((dlat * dlat + dlon * dlon) * 10000) * 111195) \div 100

\* Python's order on the strings used as names and areas
StrRank(s) ==
    CASE s = "" -> 0 [] s = "a" -> 1 [] s = "b" -> 2 [] s = "north" -> 3 [] OTHER -> 4
\* the sort key of line 211 and Python's order on such tuples
TieBreakKey(p) == << StrRank(OrEmpty(p.geographic_area)), StrRank(OrEmpty(p.name)),
                     p.lat, p.lon >>
KeyLess(k, l) ==
    \E i \in 1..4 : k[i] < l[i] /\ \A j \in 1..(i - 1) : k[j] = l[j]

\* list.sort(key=...) is stable: an element goes behind those it does not precede
RECURSIVE InsertByKey(_, _)
InsertByKey(sorted, p) ==
    IF sorted = << >> THEN << p >>
    ELSE IF KeyLess(TieBreakKey(p), TieBreakKey(Head(sorted)))
      THEN << p >> \o sorted
      ELSE << Head(sorted) >> \o InsertByKey(Tail(sorted), p)
RECURSIVE SortByKey(_)
SortByKey(s) ==
    IF s = << >> THEN << >>
    ELSE InsertByKey(SortByKey(SubSeq(s, 1, Len(s) - 1)), s[Len(s)])

NoPoint == ForecastPoint("", 0, 0, 0, None, None)
PickReturned(p) ==
    [raised |-> "", point |-> p, total_points |-> 0, skipped_count |-> 0,
     skipped_points |-> << >>]
PickRaised(cls, total, skipped) ==
    [raised |-> cls, point |-> NoPoint, total_points |-> total,
     skipped_count |-> Len(skipped), skipped_points |-> skipped]
NotPicked == PickRaised("not called", 0, << >>)

\* lines 164-179: the points with a distance, and the skipped ones
Distances(lat, lon, pts) ==
    LET valid == SelectSeq(pts, LAMBDA p : IsValidCoordinate(p.lat, p.lon))
    IN  [i \in 1..Len(valid) |->
            [point |-> valid[i], dist |-> HaversineKm(lat, lon, valid[i].lat, valid[i].lon)]]
Skipped(pts) ==
    LET bad == SelectSeq(pts, LAMBDA p : ~IsValidCoordinate(p.lat, p.lon))
    IN  [i \in 1..Len(bad) |-> << bad[i].name, bad[i].geographic_area, bad[i].lat, bad[i].lon >>]

\* `if not distances`
AnySkipped(distances, skipped) == skipped # << >>
NoneSurvives(distances, skipped) == distances = << >>

MinDistance(distances) ==
    CHOOSE m \in {distances[i].dist : i \in 1..Len(distances)} :
        \A i \in 1..Len(distances) : m <= distances[i].dist

\* `abs(dist - min_distance) <= EPSILON_KM`
ExactTieOnly(dist, min_distance) == dist = min_distance
WithinEpsilon(dist, min_distance) == Abs(dist - min_distance) <= EPSILON_KM

Candidates(distances) ==
    LET near == SelectSeq(distances,
                          LAMBDA x : WithinEpsilon(x.dist, MinDistance(distances)))
    IN  [i \in 1..Len(near) |-> near[i].point]

PickNearestPoint(lat, lon, pts) ==
    IF ~IsValidCoordinate(lat, lon) THEN PickRaised("ValueError", 0, << >>)
    ELSE IF pts = << >> THEN PickRaised("ValueError", 0, << >>)
    ELSE LET distances == Distances(lat, lon, pts)
             skipped == Skipped(pts)
         IN  IF NoneSurvives(distances, skipped)
               THEN PickRaised("InvalidCoordinatesError", Len(pts), skipped)
             ELSE LET candidates == Candidates(distances)
                  IN  IF Len(candidates) = 1 THEN PickReturned(candidates[1])
                      ELSE PickReturned(SortByKey(candidates)[1])

\* the records of a feed around one user: two days of one station, stations
\* half a metre, one metre and a metre and a half from the first, and two
\* records with out-of-range coordinates
NextDate == "2024-01-16"
StationB == ForecastPoint(ValidDate, 0, 0, 500, Some("b"), Some("north"))
StationA == ForecastPoint(ValidDate, 5, 0, 600, Some("a"), Some("north"))
StationANextDay == ForecastPoint(NextDate, 5, 0, 700, Some("a"), Some("north"))
StationEast == ForecastPoint(ValidDate, 0, 5, 600, Some("a"), Some("north"))
StationUnnamed == ForecastPoint(ValidDate, 9, 0, 300, None, Some("north"))
StationFar == ForecastPoint(ValidDate, 14, 0, 400, Some("a"), None)
BadLatitude == ForecastPoint(ValidDate, 91000000, 0, 500, Some("a"), Some("north"))
BadLongitude == ForecastPoint(ValidDate, 0, 181000000, 500, Some("b"), Some("north"))
ForecastPoints == {StationB, StationA, StationANextDay, StationEast, StationUnnamed,
                   StationFar, BadLatitude, BadLongitude}

\* the lists of at most n forecast points
PointLists(n) == UNION {[1..k -> ForecastPoints] : k \in 0..n}

\* the user: at the first station, a step north of it, and out of range
UserCoordinates == {<< 0, 0 >>, << 1, 0 >>, << 91000000, 0 >>, << 0, 181000000 >>}

\* pick_nearest_point(user_lat, user_lon, points) is called
Pick ==
    /\ picked = NotPicked
    /\ picked' = PickNearestPoint(user_lat, user_lon, points)
    /\ UNCHANGED << user_lat, user_lon, points >>
    /\ UNCHANGED << fetchVars, serviceVars, agentVars, apiVars, cacheVars, toolVars,
                    planVars, lateVars >>

\* SelectionDiagnostics, and the exception when the call raises
SelectionDiagnostics(total, valid, skipped) ==
    [raised |-> "", total_points |-> total, valid_points |-> valid,
     skipped_count |-> Len(skipped), skipped_points |-> skipped]
DiagnosticsRaised(cls) ==
    [raised |-> cls, total_points |-> 0, valid_points |-> 0, skipped_count |-> 0,
     skipped_points |-> << >>]
NotDiagnosed == DiagnosticsRaised("not called")

\* the loop of lines 316-320
ValidCount(pts) ==
    Len(SelectSeq(pts, LAMBDA p : IsValidCoordinate(p.lat, p.lon)))

\* get_selection_diagnostics, lines 311-327
CountsEveryPointValid(lat, lon, pts) ==
    IF ~IsValidCoordinate(lat, lon) THEN DiagnosticsRaised("ValueError")
    ELSE SelectionDiagnostics(Len(pts), Len(pts), Skipped(pts))
GetSelectionDiagnostics(lat, lon, pts) ==
    IF ~IsValidCoordinate(lat, lon) THEN DiagnosticsRaised("ValueError")
    ELSE SelectionDiagnostics(Len(pts), ValidCount(pts), Skipped(pts))

Diagnose ==
    /\ diagnostics = NotDiagnosed
    /\ diagnostics' = GetSelectionDiagnostics(user_lat, user_lon, points)
    /\ UNCHANGED << fetchVars, serviceVars, agentVars, apiVars, pickVars, cacheVars,
                    toolVars, planVars, parseVars, replVars >>

---------------------------------------------------------------------------
(* The interactive loop of scripts/run_agent.py, lines 66-122             *)
(***************************************************************************)

MaxLines == 2
MaxInterrupts == 1

\* str.strip() and str.lower() on the lines the user types
Strip(line) == IF line = "  exit " THEN "exit" ELSE line
LowerInput(line) == IF line = "EXIT" THEN "exit" ELSE line

Question == "I have a 5 dunam tomato farm"
Lines == {"", "quit", "exit", "EXIT", "q", "  exit ", Question}

\* what agent(user_input) does: returns an answer (plain text, text holding
\* a JSON object, text holding broken JSON) or raises
AgentResults == {"text", "json", "broken json", "raises"}

\* lines 68-76: input() returned a line
ReadLine ==
    /\ repl_pc = "input"
    /\ stdin # << >>
    /\ stdin' = Tail(stdin)
    /\ user_input' = Strip(Head(stdin))
    /\ IF user_input' = ""
          THEN repl_pc' = "input" /\ UNCHANGED transcript
          ELSE IF LowerInput(user_input') \in {"quit", "exit", "q"}
                 THEN repl_pc' = "stopped" /\ transcript' = "Goodbye!"
                 ELSE repl_pc' = "turn" /\ transcript' = "[Thinking...]"
    /\ UNCHANGED interrupts

\* lines 68 and 117: input() raises EOFError at end-of-input; EOFError is
\* an Exception and not a KeyboardInterrupt, so the last handler takes it
ReadEndOfInput ==
    /\ repl_pc = "input"
    /\ stdin = << >>
    /\ repl_pc' = "except EOFError"
    /\ UNCHANGED << stdin, interrupts, user_input, transcript >>

\* lines 79-112: one turn of the agent
Turn(result) ==
    /\ repl_pc = "turn"
    /\ IF result = "raises"
          THEN repl_pc' = "except agent error" /\ UNCHANGED transcript
          ELSE /\ repl_pc' = "input"
               /\ transcript' = IF result = "json" THEN "Parsed Structured Result"
                                                   ELSE "Agent: answer"
    /\ UNCHANGED << stdin, interrupts, user_input >>

\* lines 117-121: the handler prints the error and its trace, and the
\* `while True` loop starts its next iteration
PrintError ==
    /\ repl_pc \in {"except EOFError", "except agent error"}
    /\ transcript' = IF repl_pc = "except EOFError"
                       THEN "[ERROR] EOF when reading a line"
                       ELSE "[ERROR] agent"
    /\ repl_pc' = "input"
    /\ UNCHANGED << stdin, interrupts, user_input >>

\* lines 114-116: a keyboard interrupt anywhere inside the try block
KeyboardInterrupt ==
    /\ repl_pc \in {"input", "turn"}
    /\ interrupts > 0
    /\ interrupts' = interrupts - 1
    /\ transcript' = "Interrupted. Goodbye!"
    /\ repl_pc' = "stopped"
    /\ UNCHANGED << stdin, user_input >>

(***************************************************************************)
(* The HTTP application: app/api/main.py, app/api/routes/irrigation.py,    *)
(* app/api/routes/agent.py behind the API-key dependency                   *)

\* the values of the api_auth_key setting: empty = auth disabled
ApiAuthKeys == {"", "k1"}
\* the X-API-Key header; APIKeyHeader(auto_error=False) yields None when absent
ApiKeyHeaders == {"None", "k1", "k2"}

Routes == {"POST /irrigation/plan", "POST /agent/run", "GET /health", "GET /"}
\* include_router(..., dependencies=[Depends(verify_api_key)])
GuardedRoutes == {"POST /irrigation/plan", "POST /agent/run"}

\* an exception detail: {"error": {"code": ..., "message": ...}}, or the list
\* of errors of a request that does not fit its schema
EnvelopedDetail(code, msg) == [shape |-> "error", code |-> code, message |-> msg]
ErrorListDetail == [shape |-> "errors", code |-> "", message |-> ""]
NoDetail == [shape |-> "", code |-> "", message |-> ""]

HTTPException(st, detail) == [exc |-> "HTTPException", status |-> st, detail |-> detail]
RequestValidationError ==
    [exc |-> "RequestValidationError", status |-> 422, detail |-> ErrorListDetail]
NoExc == [exc |-> "", status |-> 0, detail |-> NoDetail]

\* create_error_response, on the status and code that map_domain_error_to_http chose
CreateErrorResponse(r, msg) == HTTPException(r.status, EnvelopedDetail(r.code, msg))

\* the message map_domain_error_to_http puts in the envelope; "str(error)"
\* stands for the text of the original error
ErrorMessage(e) ==
    IF IsValueError(e) \/ e.cls = "OfflineModeError" THEN "str(error)"
    ELSE IF e.cls = "MoAGClientError" THEN "Upstream weather service error: str(error)"
    ELSE IF e.mentions \in {"rate limit", "quota"}
      THEN "Upstream AI service rate limit exceeded."
    ELSE "An unexpected error occurred. Please try again later."

\* verify_api_key
AcceptsAnyPresentKey(configured, api_key) ==
    IF configured # "" /\ api_key = "None"
      THEN HTTPException(401, EnvelopedDetail("UNAUTHORIZED", "Invalid or missing API Key"))
      ELSE NoExc
VerifyApiKey(configured, api_key) ==
    IF configured # "" /\ api_key # configured
      THEN HTTPException(401, EnvelopedDetail("UNAUTHORIZED", "Invalid or missing API Key"))
      ELSE NoExc

\* a response: its status and the top level of its JSON body
\* (and, for a plan, date_used, chosen_point.date and plan.date)
ApiResponse(st, shape, code) ==
    [status |-> st, shape |-> shape, code |-> code, date_used |-> "",
     chosen_point_date |-> "", plan_date |-> ""]
\* IrrigationPlanResponse, lines 62-75 of the irrigation route
IrrigationPlanResponse(plan, chosen_point, date_used) ==
    [ApiResponse(200, "plan", "") EXCEPT !.date_used = date_used,
                                         !.chosen_point_date = chosen_point.date,
                                         !.plan_date = plan.date]
NoApiResponse == ApiResponse(0, "", "")

\* custom_http_exception_handler
CustomHttpExceptionHandler(exc) ==
    IF exc.detail.shape = "error"
      THEN ApiResponse(exc.status, "error", exc.detail.code)
      ELSE ApiResponse(exc.status, "detail", "")

\* no handler is registered for RequestValidationError: the framework's own
\* answers 422 with {"detail": [...]}
RequestValidationHandler(exc) == ApiResponse(exc.status, "detail", "")

\* a request body: the fields of IrrigationPlanRequest and of AgentRunRequest
Body(lat, mode, crop, dunam, eff, plant, pot, msg) ==
    [lat |-> lat, lon |-> IF IsNone(lat) THEN None ELSE Some(0), mode |-> mode, crop_name |-> crop, stage |-> None,
     area_dunam |-> dunam, irrigation_method |-> None, efficiency |-> eff,
     plant_profile |-> plant, pot_diameter_cm |-> None, pot_volume_l |-> pot,
     message |-> msg]
NoBody == Body(None, None, None, None, None, None, None, None)

FarmBody(crop) == Body(Some(0), Some("farm"), crop, Some(500), None, None, None, None)
PlantBody(plant) == Body(Some(0), Some("plant"), None, None, None, plant, Some(200), None)

IrrigationBodies ==
    { FarmBody(Some("tomato")), FarmBody(Some("unknown_crop_xyz")), FarmBody(None),
      PlantBody(Some("leafy_houseplant")), PlantBody(Some("unknown_plant_xyz")),
      Body(Some(0), Some("invalid"), Some("tomato"), Some(500), None, None, None, None),
      Body(Some(0), Some("farm"), Some("tomato"), Some(500), Some(0), None, None, None),
      Body(Some(91000000), Some("farm"), Some("tomato"), Some(500), None, None, None, None),
      NoBody }
\* messages of 5000 and of 5001 characters
FullMessage == "how much water? ... (5000 characters)"
LongMessage == "how much water? ... (5001 characters)"
\* len() of the messages used here
Characters(m) ==
    IF m = "" THEN 0
    ELSE IF m = FullMessage THEN 5000
    ELSE IF m = LongMessage THEN 5001
    ELSE 15
AgentBodies ==
    { Body(None, None, None, None, None, None, None, Some("how much water?")),
      Body(None, None, None, None, None, None, None, Some("")),
      Body(None, None, None, None, None, None, None, Some(FullMessage)),
      Body(None, None, None, None, None, None, None, Some(LongMessage)),
      NoBody }
BodiesOf(route) ==
    IF route = "POST /irrigation/plan" THEN IrrigationBodies
    ELSE IF route = "POST /agent/run" THEN AgentBodies
    ELSE {NoBody}

\* IrrigationPlanRequest with validate_mode_fields
IrrigationPlanRequestValid(b) ==
    /\ ~IsNone(b.lat) /\ ~IsNone(b.lon)
    /\ b.mode \in {Some("farm"), Some("plant")}
    /\ IsNone(b.efficiency) \/ (0 <= ValueOf(b.efficiency) /\ ValueOf(b.efficiency) <= 100)
    /\ b.mode = Some("farm") => ~FalsyStr(b.crop_name) /\ ~FalsyNum(b.area_dunam)
    /\ b.mode = Some("plant") =>
          ~FalsyStr(b.plant_profile) /\ ~(FalsyNum(b.pot_diameter_cm) /\ FalsyNum(b.pot_volume_l))

\* AgentRunRequest: message is required, min_length=1, max_length=5000
AnyMessageValid(b) == TRUE
AgentRunRequestValid(b) ==
    /\ ~IsNone(b.message)
    /\ Characters(ValueOf(b.message)) >= 1
    /\ Characters(ValueOf(b.message)) <= 5000

\* the ProfileInput built at lines 44-56 of the irrigation route
ProfileOfRequest(b) ==
    ProfileInput(ValueOf(b.mode), None, b.area_dunam, b.crop_name, b.stage,
                 b.pot_volume_l, b.pot_diameter_cm, b.plant_profile, Some("indoor"),
                 b.irrigation_method, b.efficiency)

NoFailure == [cls |-> "", mentions |-> "none"]
Failure(cls) == [cls |-> cls, mentions |-> "none"]

\* what get_forecast_points hands to the irrigation route: a list of points
\* or one of its errors
ForecastOutcomes == {"points", "ValueError", "OfflineModeError", "MoAGClientError"}
RoutePointLists ==
    {<< >>, << StationB >>, << StationA, StationB >>, << BadLatitude >>,
     << StationANextDay, StationA >>}

\* a request arrives
ApiRequest(route, header, body) ==
    /\ q_pc = "idle"
    /\ q_pc' = "received"
    /\ q_route' = route
    /\ q_header' = header
    /\ q_body' = body
    /\ UNCHANGED << api_auth_key, q_failure, q_exc, q_response, q_work >>
    /\ UNCHANGED << fetchVars, serviceVars, agentVars, pureVars >>

\* the dependencies of the route are solved: verify_api_key on the two routers
SolveDependencies ==
    /\ q_pc = "received"
    /\ LET exc == IF q_route \in GuardedRoutes
                    THEN VerifyApiKey(api_auth_key, q_header) ELSE NoExc
       IN  IF exc # NoExc
             THEN q_exc' = exc /\ q_pc' = "raised"
             ELSE q_exc' = q_exc /\ q_pc' = "validate"
    /\ UNCHANGED << api_auth_key, q_route, q_header, q_body, q_failure, q_response, q_work >>
    /\ UNCHANGED << fetchVars, serviceVars, agentVars, pureVars >>

\* the body is validated against the request schema of the route
ValidateRequest ==
    /\ q_pc = "validate"
    /\ LET valid == IF q_route = "POST /irrigation/plan"
                      THEN IrrigationPlanRequestValid(q_body)
                    ELSE IF q_route = "POST /agent/run" THEN AgentRunRequestValid(q_body)
                    ELSE TRUE
       IN  IF valid
             THEN q_exc' = q_exc /\ q_pc' = "route"
             ELSE q_exc' = RequestValidationError /\ q_pc' = "raised"
    /\ UNCHANGED << api_auth_key, q_route, q_header, q_body, q_failure, q_response, q_work >>
    /\ UNCHANGED << fetchVars, serviceVars, agentVars, pureVars >>

\* create_irrigation_plan, lines 31-80 of the irrigation route
CreateIrrigationPlan(fr, pts) ==
    /\ q_pc = "route"
    /\ q_route = "POST /irrigation/plan"
    /\ LET date_used == Today              \* the requests carry no date
           chosen == PickNearestPoint(ValueOf(q_body.lat), ValueOf(q_body.lon), pts)
           prof == ProfileOfRequest(q_body)
           computed == ComputePlan(prof, chosen.point)
           failure == IF fr # "points" THEN Failure(fr)
                      ELSE IF chosen.raised # "" THEN Failure(chosen.raised)
                      ELSE IF ~ProfileInputValid(prof) THEN Failure("ValueError")
                      ELSE IF computed.raised # "" THEN Failure(computed.raised)
                      ELSE NoFailure
       IN  /\ q_failure' = failure
           /\ q_work' = {"forecast"}
                        \cup (IF fr = "points" THEN {"pick"} ELSE {})
                        \cup (IF fr = "points" /\ chosen.raised = "" /\ ProfileInputValid(prof)
                                THEN {"compute"} ELSE {})
           /\ IF failure = NoFailure
                THEN /\ q_response' = IrrigationPlanResponse(computed.plan, chosen.point, date_used)
                     /\ q_pc' = "responded"
                     /\ q_exc' = q_exc
                ELSE /\ q_exc' = CreateErrorResponse(MapDomainErrorToHttp(failure), ErrorMessage(failure))
                     /\ q_pc' = "raised"
                     /\ q_response' = q_response
    /\ UNCHANGED << api_auth_key, q_route, q_header, q_body >>
    /\ UNCHANGED << fetchVars, serviceVars, agentVars, pureVars >>

\* run_agent, lines 50-88 of the agent route; res is what build_agent and
\* agent.structured_output do
RunAgent(res) ==
    /\ q_pc = "route"
    /\ q_route = "POST /agent/run"
    /\ LET key == ClientKey(q_header)
           window == CurrentWindow(request_history, key, now)
           allowed == ~AtLimit(window)
           stored == Recorded(window, now, allowed)
       IN  /\ request_history' =
                  [k \in DOMAIN request_history \cup {key} |->
                      IF k = key THEN stored ELSE request_history[k]]
           /\ q_work' = IF allowed THEN {"agent"} ELSE {}
           /\ q_failure' = IF allowed THEN res ELSE NoFailure
           /\ IF allowed /\ res = NoFailure
                THEN /\ q_response' = ApiResponse(200, "result", "")
                     /\ q_pc' = "responded"
                     /\ q_exc' = q_exc
                ELSE /\ q_exc' = IF allowed
                                   THEN CreateErrorResponse(MapDomainErrorToHttp(res),
                                                            ErrorMessage(res))
                                   ELSE HTTPException(429,
                                            EnvelopedDetail("RATE_LIMIT_EXCEEDED",
                                                "Too many requests. Please try again later."))
                     /\ q_pc' = "raised"
                     /\ q_response' = q_response
    /\ UNCHANGED << api_auth_key, q_route, q_header, q_body >>
    /\ UNCHANGED << now, r_pc, r_caller, r_now, r_check, response, agent_built,
                    agent_invoked, accepted, accepted_callers,
                    rejected_at >>
    /\ UNCHANGED << fetchVars, serviceVars, pureVars >>

\* health and root: no dependency, no body
Health ==
    /\ q_pc = "route"
    /\ q_route = "GET /health"
    /\ q_response' = ApiResponse(200, "status", "")
    /\ q_pc' = "responded"
    /\ UNCHANGED << api_auth_key, q_route, q_header, q_body, q_failure, q_exc, q_work >>
    /\ UNCHANGED << fetchVars, serviceVars, agentVars, pureVars >>

Root ==
    /\ q_pc = "route"
    /\ q_route = "GET /"
    /\ q_response' = ApiResponse(307, "redirect", "")
    /\ q_pc' = "responded"
    /\ UNCHANGED << api_auth_key, q_route, q_header, q_body, q_failure, q_exc, q_work >>
    /\ UNCHANGED << fetchVars, serviceVars, agentVars, pureVars >>

\* the exception handlers turn the raised exception into the response
HandleException ==
    /\ q_pc = "raised"
    /\ q_response' = IF q_exc.exc = "HTTPException"
                       THEN CustomHttpExceptionHandler(q_exc)
                       ELSE RequestValidationHandler(q_exc)
    /\ q_pc' = "responded"
    /\ UNCHANGED << api_auth_key, q_route, q_header, q_body, q_failure, q_exc, q_work >>
    /\ UNCHANGED << fetchVars, serviceVars, agentVars, pureVars >>

\* the response is sent; the application is ready for the next request
ApiSend ==
    /\ q_pc = "responded"
    /\ q_pc' = "idle"
    /\ q_route' = ""
    /\ q_header' = "None"
    /\ q_body' = NoBody
    /\ q_failure' = NoFailure
    /\ q_exc' = NoExc
    /\ q_response' = NoApiResponse
    /\ q_work' = {}
    /\ UNCHANGED api_auth_key
    /\ UNCHANGED << fetchVars, serviceVars, agentVars, pureVars >>

---------------------------------------------------------------------------
(* parse_forecast_points on the records of a feed: app/data/moag_parser.py *)

\* A JSON value read from a location or a date entry: null (also a missing
\* key, which dict.get turns into None), a number, a string holding a
\* number ("5"), another string ("abc"), or an array ([1])
RawNull == [kind |-> "null", val |-> 0]
RawNumber(v) == [kind |-> "number", val |-> v]
RawNumeric(v) == [kind |-> "numeric string", val |-> v]
RawText == [kind |-> "text", val |-> 0]
RawArray == [kind |-> "array", val |-> 0]

\* Python's truth value of it: None and 0 are false, a non-empty string or
\* list is true
Truthy(r) == r.kind \in {"numeric string", "text", "array"} \/ (r.kind = "number" /\ r.val # 0)

\* `a or b`
Or(a, b) == IF Truthy(a) THEN a ELSE b

\* `float(x) if x is not None else None`: raised tells that float() raised
\* ValueError or TypeError
FloatOrNone(r) ==
    IF r.kind = "null" THEN [raised |-> FALSE, value |-> None]
    ELSE IF r.kind \in {"number", "numeric string"} THEN [raised |-> FALSE, value |-> Some(r.val)]
    ELSE [raised |-> TRUE, value |-> None]

\* datetime.strptime(date_str, "%Y-%m-%d").date(): None when it raises;
\* the month and the day need no leading zero
Strptime(date_key) ==
    CASE date_key = ValidDate -> Some(ValidDate)
      [] date_key = NextDate -> Some(NextDate)
      [] date_key = "2024-1-16" -> Some(NextDate)
      [] OTHER -> None

\* one item of a location's data: the date key and its value
DateEntry(date_key, is_dict, evap) == [date_str |-> date_key, is_dict |-> is_dict, evap |-> evap]

\* one element of an area's list; data lists the items of its "data" dict
Location(is_dict, name, lat, latitude, long, longitude, lon, data_is_dict, data) ==
    [is_dict |-> is_dict, name |-> name, lat |-> lat, latitude |-> latitude,
     long |-> long, longitude |-> longitude, lon |-> lon,
     data_is_dict |-> data_is_dict, data |-> data]

\* one item of tempEvapRecord.areas
Area(area_name, is_list, locations) ==
    [area_name |-> area_name, is_list |-> is_list, locations |-> locations]

\* a payload: jtype is the type of the top-level value, ter the shape of
\* its "tempEvapRecord" member and areas_shape that of the member "areas"
Feed(jtype, ter, areas_shape, areas) ==
    [jtype |-> jtype, ter |-> ter, areas_shape |-> areas_shape, areas |-> areas]
NoFeed == Feed("", "", "", << >>)

ParseReturned(pts) == [raised |-> "", points |-> pts]
ParseRaised(cls) == [raised |-> cls, points |-> << >>]
NotParsed == ParseRaised("not called")

\* lines 94-173: the records of one location
RECURSIVE ParseDates(_, _, _, _, _)
ParseDates(area_name, name, lat, lon, data) ==
    IF data = << >> THEN << >>
    ELSE LET date_data == Head(data)
             date_obj == Strptime(date_data.date_str)
             evap_mm == FloatOrNone(date_data.evap)
             rest == ParseDates(area_name, name, lat, lon, Tail(data))
         IN  IF ~date_data.is_dict THEN rest
             ELSE IF IsNone(date_obj) THEN rest
             ELSE IF evap_mm.raised THEN rest
             ELSE IF IsNone(evap_mm.value) THEN rest
             ELSE << ForecastPoint(ValueOf(date_obj), lat, lon, ValueOf(evap_mm.value), name,
                                   IF area_name = "" THEN None ELSE Some(area_name)) >>
                  \o rest

\* lines 60-91
ReadCoordinates(location) ==
    [lat_raw |-> Or(location.lat, location.latitude),
     lon_raw |-> Or(Or(location.long, location.longitude), location.lon)]

ParseLocation(area_name, location) ==
    IF ~location.is_dict THEN << >>
    ELSE IF ~location.data_is_dict THEN << >>
    ELSE LET raw == ReadCoordinates(location)
             lat == FloatOrNone(raw.lat_raw)
             lon == FloatOrNone(raw.lon_raw)
         IN  IF lat.raised \/ lon.raised THEN << >>
             ELSE IF IsNone(lat.value) \/ IsNone(lon.value) THEN << >>
             ELSE ParseDates(area_name, location.name, ValueOf(lat.value),
                             ValueOf(lon.value), location.data)

\* lines 57-58
RECURSIVE ParseLocations(_, _)
ParseLocations(area_name, locations) ==
    IF locations = << >> THEN << >>
    ELSE ParseLocation(area_name, Head(locations))
         \o ParseLocations(area_name, Tail(locations))

\* lines 51-54
RECURSIVE ParseAreas(_)
ParseAreas(areas) ==
    IF areas = << >> THEN << >>
    ELSE (IF Head(areas).is_list
            THEN ParseLocations(Head(areas).area_name, Head(areas).locations)
            ELSE << >>)
         \o ParseAreas(Tail(areas))

\* lines 38-48 and 175-177
ParseFeed(f) ==
    IF f.jtype # "object" THEN ParseRaised("ValueError")               \* payload.get fails
    ELSE IF f.ter \in {"missing", "null", "empty object", "empty array"}
      THEN ParseReturned(<< >>)                                         \* not temp_evap_record
    ELSE IF f.ter # "object" THEN ParseRaised("ValueError")            \* temp_evap_record.get fails
    ELSE IF f.areas_shape = "missing" THEN ParseReturned(<< >>)        \* {} has no items
    ELSE IF f.areas_shape # "object" THEN ParseReturned(<< >>)
    ELSE ParseReturned(ParseAreas(f.areas))

\* the data of a location: two dates, one date, a date key in another
\* format beside a numeric string, evap that is text, evap missing beside
\* an unpadded date key, a value that is no object, and no dates
DataSamples ==
    {<< DateEntry(ValidDate, TRUE, RawNumber(500)), DateEntry(NextDate, TRUE, RawNumber(700)) >>,
     << DateEntry(ValidDate, TRUE, RawNumber(500)) >>,
     << DateEntry(BadDate, TRUE, RawNumber(500)), DateEntry(ValidDate, TRUE, RawNumeric(250)) >>,
     << DateEntry(ValidDate, TRUE, RawText) >>,
     << DateEntry(ValidDate, TRUE, RawNull), DateEntry("2024-1-16", TRUE, RawNumber(0)) >>,
     << DateEntry(ValidDate, FALSE, RawNull) >>}
OneDate == << DateEntry(ValidDate, TRUE, RawNumber(500)) >>

\* the locations of the feeds explored
GoodLocations ==
    {Location(TRUE, Some("a"), RawNumber(5), RawNull, RawNumber(3), RawNull, RawNull, TRUE, d) :
        d \in DataSamples}
OddLocations ==
    {Location(TRUE, Some("eq"), RawNumber(0), RawNull, RawNumber(3), RawNull, RawNull, TRUE, OneDate),
     Location(TRUE, Some("gm"), RawNumber(5), RawNull, RawNumber(0), RawNull, RawNull, TRUE, OneDate),
     Location(TRUE, Some("b"), RawNumber(0), RawNumber(7), RawNumber(3), RawNull, RawNull, TRUE, OneDate),
     Location(TRUE, Some("b"), RawNumeric(0), RawNull, RawNumber(0), RawNull, RawNumber(2), TRUE, OneDate),
     Location(TRUE, None, RawNull, RawNumber(7), RawNull, RawNumeric(3), RawNull, TRUE, OneDate),
     Location(TRUE, Some("a"), RawText, RawNull, RawNumber(3), RawNull, RawNull, TRUE, OneDate),
     Location(TRUE, Some("a"), RawNumber(5), RawNull, RawArray, RawNull, RawNull, TRUE, OneDate),
     Location(TRUE, Some("a"), RawNumber(5), RawNull, RawNull, RawNull, RawNull, TRUE, OneDate),
     Location(TRUE, Some("a"), RawNumber(5), RawNull, RawNumber(3), RawNull, RawNull, FALSE, << >>),
     Location(FALSE, None, RawNull, RawNull, RawNull, RawNull, RawNull, FALSE, << >>)}
Locations == GoodLocations \cup OddLocations
LocationLists == UNION {[1..k -> Locations] : k \in 0..MaxLocations}

\* feeds with records, with and without an area that is no list before them
RecordFeeds ==
    {Feed("object", "object", "object", << Area("north", TRUE, locs) >>) :
        locs \in LocationLists}
    \cup {Feed("object", "object", "object",
               << Area("junk", FALSE, << >>), Area("north", TRUE, locs) >>) :
            locs \in {l \in LocationLists : Len(l) = 1}}
\* feeds whose tempEvapRecord or areas is missing or has another type
ShapeFeeds ==
    {Feed("object", ter, "missing", << >>) :
        ter \in {"missing", "null", "empty object", "empty array", "array", "string", "number",
                 "object"}}
    \cup {Feed("object", "object", s, << >>) : s \in {"null", "array", "string", "object"}}
    \cup {Feed(t, "missing", "missing", << >>) : t \in {"array", "null"}}
Feeds == RecordFeeds \cup ShapeFeeds

\* parse_forecast_points(payload)
Parse ==
    /\ parsed = NotParsed
    /\ parsed' = ParseFeed(feed)
    /\ UNCHANGED feed
    /\ UNCHANGED << fetchVars, serviceVars, agentVars, apiVars, pickVars, cacheVars,
                    toolVars, planVars, diagVars, replVars >>

---------------------------------------------------------------------------
(* ForecastCache used directly *)

\* the date column is TEXT and takes any string: the cache checks no format
CacheDates == {ValidDate, NextDate, BadDate}

\* payloads stored: what response.json() gave, JSON null included
CachePayloads == {PyNone, EmptyObject, FeedA, FeedB}

\* one set_forecast call as the history keeps it
SetCall(d, p) == [date |-> d, payload |-> p]

\* the result of a get_forecast call, and how many set_forecast calls came
\* before it
Got(d, v, n) == [date |-> d, value |-> v, after |-> n]
NoGet == Got("", PyNone, 0)

\* cache.set_forecast(d, p): lines 90-113
CacheSet(d, p) ==
    /\ Len(set_log) < MaxSets
    /\ cache' = SetForecast(cache, d, p)
    /\ set_log' = Append(set_log, SetCall(d, p))
    /\ UNCHANGED got
    /\ UNCHANGED << offline_setting, pc, date_str, offline_mode, is_offline, payload,
                    fetch_error, outcome, trail, fetched, last_commit, calls >>
    /\ UNCHANGED << fetchVars, agentVars, apiVars, pickVars, toolVars, planVars, lateVars >>

\* cache.get_forecast(d): lines 64-88
CacheGet(d) ==
    /\ got' = Got(d, GetForecast(cache, d), Len(set_log))
    /\ UNCHANGED set_log
    /\ UNCHANGED << fetchVars, serviceVars, agentVars, apiVars, pickVars, toolVars,
                    planVars, lateVars >>

---------------------------------------------------------------------------
(* The agent tools: app/agents/tools.py *)

\* A Python value the agent passes as a tool argument or as an element of
\* the points list.  py is its type; has_error tells whether `"error" in v`
\* is true of it (a key of a dict, an element of a list, a substring of a
\* str); point and prof are the ForecastPoint and ProfileInput fields a
\* dict carries, NoPoint and NoProfile when it lacks them.
PyValue(py, has_error, point, prof) ==
    [py |-> py, has_error |-> has_error, point |-> point, profile |-> prof]
NoneValue == PyValue("NoneType", FALSE, NoPoint, NoProfile)
IntValue == PyValue("int", FALSE, NoPoint, NoProfile)
PlainStr == PyValue("str", FALSE, NoPoint, NoProfile)
ErrorStr == PyValue("str", TRUE, NoPoint, NoProfile)
ErrorList == PyValue("list", TRUE, NoPoint, NoProfile)
ErrorDict == PyValue("dict", TRUE, NoPoint, NoProfile)
EmptyDict == PyValue("dict", FALSE, NoPoint, NoProfile)
PointDict(pt) == PyValue("dict", FALSE, pt, NoProfile)
ProfileDict(pr) == PyValue("dict", FALSE, NoPoint, pr)

\* `"error" in v` raises TypeError when v is not a container
ContainsRaises(v) == v.py \in {"NoneType", "int"}
\* `v["error"]` gives a value only for a dict with the key
SubscriptRaises(v) == ~(v.py = "dict" /\ v.has_error)

\* ForecastPoint(**v) and ProfileInput(**v) succeed
IsForecastPoint(v) == v.py = "dict" /\ v.point # NoPoint
IsProfileInput(v) ==
    v.py = "dict" /\ v.profile # NoProfile /\ ProfileInputValid(v.profile)

\* What a tool call gives its caller: the returned JSON value (has_error:
\* it carries an "error" field) or the exception that left the function
ToolReturned(has_error, point, plan, items) ==
    [raised |-> "", has_error |-> has_error, point |-> point, plan |-> plan,
     points |-> items]
ToolRaised(cls) ==
    [raised |-> cls, has_error |-> FALSE, point |-> NoPoint, plan |-> NoPlan,
     points |-> << >>]
ErrorResult == ToolReturned(TRUE, NoPoint, NoPlan, << >>)
NotCalled == ToolRaised("not called")

ToolCall(tool, date, lat, lon, pts, prof, fp) ==
    [tool |-> tool, date_str |-> date, user_lat |-> lat, user_lon |-> lon,
     points |-> pts, profile |-> prof, forecast_point |-> fp]
NoCall == ToolCall("", "", 0, 0, << >>, NoneValue, NoneValue)

\* tool_get_forecast_points, lines 44-58: res is what get_forecast_points
\* did, pts the list it returned
ToolGetForecastPoints(res, pts) ==
    IF res = "points" THEN ToolReturned(FALSE, NoPoint, NoPlan, pts)
    ELSE ErrorResult

\* tool_pick_nearest_point, lines 81-111
ToolPickNearestPoint(lat, lon, pts) ==
    IF pts = << >> THEN ErrorResult
    ELSE IF Len(pts) = 1 /\ ContainsRaises(pts[1]) THEN ToolRaised("TypeError")
    ELSE IF Len(pts) = 1 /\ pts[1].has_error
      THEN IF SubscriptRaises(pts[1]) THEN ToolRaised("TypeError") ELSE ErrorResult
    ELSE IF \E i \in 1..Len(pts) : ~IsForecastPoint(pts[i]) THEN ErrorResult
    ELSE LET r == PickNearestPoint(lat, lon, [i \in 1..Len(pts) |-> pts[i].point])
         IN  IF r.raised = "" THEN ToolReturned(FALSE, r.point, NoPlan, << >>)
             ELSE IF IsValueError([cls |-> r.raised]) THEN ErrorResult
             ELSE ToolRaised(r.raised)

\* tool_compute_irrigation, lines 149-170
ToolComputeIrrigation(prof, fp) ==
    IF ContainsRaises(fp) THEN ToolRaised("TypeError")
    ELSE IF fp.has_error
      THEN IF SubscriptRaises(fp) THEN ToolRaised("TypeError") ELSE ErrorResult
    ELSE IF ~IsProfileInput(prof) THEN ErrorResult
    ELSE IF ~IsForecastPoint(fp) THEN ErrorResult
    ELSE LET r == ComputePlan(prof.profile, fp.point)
         IN  IF r.raised = "" THEN ToolReturned(FALSE, NoPoint, r.plan, << >>)
             ELSE ErrorResult

\* the values an agent passes: well-formed dicts and malformed ones
ToolPoints == {PointDict(StationB), PointDict(StationA), PointDict(BadLatitude)}
ToolElements ==
    ToolPoints \cup {NoneValue, IntValue, PlainStr, ErrorStr, ErrorList, ErrorDict,
                     EmptyDict}
ToolPointLists == UNION {[1..k -> ToolElements] : k \in 0..2}
ToolCoordinates == {<< 0, 0 >>, << 91000000, 0 >>}
ToolProfiles ==
    {ProfileDict(ProfileOfRequest(FarmBody(Some("tomato")))),
     ProfileDict(ProfileOfRequest(FarmBody(Some("dragonfruit")))),
     ProfileDict(ProfileOfRequest(PlantBody(Some("leafy_houseplant")))),
     EmptyDict, NoneValue, PlainStr}

CallGetForecastPoints(d, res, pts) ==
    /\ t_call' = ToolCall("tool_get_forecast_points", d, 0, 0, << >>, NoneValue, NoneValue)
    /\ t_result' = ToolGetForecastPoints(res, pts)
    /\ UNCHANGED << fetchVars, serviceVars, agentVars, apiVars, pickVars, cacheVars,
                    planVars, lateVars >>

CallPickNearestPoint(lat, lon, pts) ==
    /\ t_call' = ToolCall("tool_pick_nearest_point", "", lat, lon, pts, NoneValue, NoneValue)
    /\ t_result' = ToolPickNearestPoint(lat, lon, pts)
    /\ UNCHANGED << fetchVars, serviceVars, agentVars, apiVars, pickVars, cacheVars,
                    planVars, lateVars >>

CallComputeIrrigation(prof, fp) ==
    /\ t_call' = ToolCall("tool_compute_irrigation", "", 0, 0, << >>, prof, fp)
    /\ t_result' = ToolComputeIrrigation(prof, fp)
    /\ UNCHANGED << fetchVars, serviceVars, agentVars, apiVars, pickVars, cacheVars,
                    planVars, lateVars >>

---------------------------------------------------------------------------
(* Initial values of the components *)

InitFetch ==
    /\ f_pc = "idle"
    /\ f_date = ""
    /\ max_retries = 0
    /\ retry_delay = 0
    /\ attempt = 0
    /\ last_error = NoError
    /\ f_outcome = NoOutcome
    /\ events = << >>


\* the cache database is created empty (_init_db creates the table)
InitService(setting) ==
    /\ offline_setting = setting
    /\ cache = << >>
    /\ pc = [c \in Callers |-> "idle"]
    /\ date_str = [c \in Callers |-> ""]
    /\ offline_mode = [c \in Callers |-> "None"]
    /\ is_offline = [c \in Callers |-> FALSE]
    /\ payload = [c \in Callers |-> PyNone]
    /\ fetch_error = [c \in Callers |-> NoError]
    /\ outcome = [c \in Callers |-> NoOutcome]
    /\ trail = [c \in Callers |-> << >>]
    /\ fetched = [d \in Dates |-> {}]
    /\ last_commit = << >>
    /\ calls = 0


\* the module-level _request_history = {} of a fresh process
InitAgent ==
    /\ now = 0
    /\ request_history = << >>
    /\ r_pc = "idle"
    /\ r_caller = ""
    /\ r_now = 0
    /\ r_check = "none"
    /\ response = NoResponse
    /\ agent_built = FALSE
    /\ agent_invoked = FALSE
    /\ accepted = << >>
    /\ accepted_callers = {}
    /\ rejected_at = {}

\* settings are loaded once; no request is in flight
InitApi(key) ==
    /\ api_auth_key = key
    /\ q_pc = "idle"
    /\ q_route = ""
    /\ q_header = "None"
    /\ q_body = NoBody
    /\ q_failure = NoFailure
    /\ q_exc = NoExc
    /\ q_response = NoApiResponse
    /\ q_work = {}

InitPick ==
    /\ user_lat = 0
    /\ user_lon = 0
    /\ points = << >>
    /\ picked = NotPicked

InitCache ==
    /\ set_log = << >>
    /\ got = NoGet

InitTools ==
    /\ t_call = NoCall
    /\ t_result = NotCalled

InitPlan ==
    /\ profile = NoProfile
    /\ forecast = NoPoint
    /\ plan_outcome = NotComputed

InitParse ==
    /\ feed = NoFeed
    /\ parsed = NotParsed

InitDiag == diagnostics = NotDiagnosed

InitRepl ==
    /\ repl_pc = "stopped"
    /\ stdin = << >>
    /\ interrupts = 0
    /\ user_input = ""
    /\ transcript = ""

InitLate == InitParse /\ InitDiag /\ InitRepl

InitPure == InitPick /\ InitCache /\ InitTools /\ InitPlan /\ InitLate

---------------------------------------------------------------------------
(* The specifications *)

FetchArgs(n) == {ArgNone} \cup (0..n)

InitF == InitFetch /\ InitService(FALSE) /\ InitAgent /\ InitApi("") /\ InitPure

NextFetch ==
    \/ \E d \in Dates, mr \in FetchArgs(MaxRetriesArg), rd \in FetchArgs(MaxDelayArg) :
          FetchCall(d, mr, rd)
    \/ \E resp \in Responses, p \in Payloads : Attempt(resp, p)
    \/ BackoffWait
    \/ Exhausted

\* a running call keeps running: requests.get returns or raises within its
\* timeout, time.sleep returns
SpecFetch == InitF /\ [][NextFetch]_vars /\ WF_vars(NextFetch)

InitS == InitFetch /\ (\E b \in BOOLEAN : InitService(b)) /\ InitAgent /\ InitApi("") /\ InitPure

NextService ==
    \/ \E c \in Callers, d \in Dates \cup {"None"}, off \in OfflineArgs : Call(c, d, off)
    \/ \E c \in Callers : Lookup(c)
    \/ \E c \in Callers : Fetch(c)
    \/ \E c \in Callers : Store(c)
    \/ \E c \in Callers : Fallback(c)
    \/ \E c \in Callers : Finish(c)

SpecService == InitS /\ [][NextService]_vars

InitA == InitFetch /\ InitService(FALSE) /\ InitAgent /\ InitApi("") /\ InitPure

NextAgent ==
    \/ \E dt \in ClockSteps : Tick(dt)
    \/ \E caller \in Clients : Receive(caller)
    \/ RateLimitCheck
    \/ BuildAgent
    \/ \E e \in Failures : BuildAgentFails(e)
    \/ StructuredOutput
    \/ \E e \in Failures : StructuredOutputFails(e)
    \/ SendResponse

SpecAgent == InitA /\ [][NextAgent]_vars

InitH == InitFetch /\ InitService(FALSE) /\ InitAgent /\ (\E k \in ApiAuthKeys : InitApi(k))
         /\ InitPure

NextApi ==
    \/ \E route \in Routes, header \in ApiKeyHeaders :
          \E body \in BodiesOf(route) : ApiRequest(route, header, body)
    \/ SolveDependencies
    \/ ValidateRequest
    \/ \E fr \in ForecastOutcomes, pts \in RoutePointLists : CreateIrrigationPlan(fr, pts)
    \/ \E res \in {NoFailure} \cup Failures : RunAgent(res)
    \/ Health
    \/ Root
    \/ HandleException
    \/ ApiSend

SpecApi == InitH /\ [][NextApi]_vars

\* the arguments of one pick_nearest_point call
InitP ==
    /\ InitFetch /\ InitService(FALSE) /\ InitAgent /\ InitApi("")
    /\ InitCache /\ InitTools /\ InitPlan /\ InitLate
    /\ \E c \in UserCoordinates : user_lat = c[1] /\ user_lon = c[2]
    /\ points \in PointLists(MaxPoints)
    /\ picked = NotPicked

NextPick == Pick

SpecPick == InitP /\ [][NextPick]_vars

\* a ForecastCache on a new database file
InitC ==
    /\ InitFetch /\ InitService(FALSE) /\ InitAgent /\ InitApi("")
    /\ InitPick /\ InitCache /\ InitTools /\ InitPlan /\ InitLate

NextCache ==
    \/ \E d \in CacheDates, p \in CachePayloads : CacheSet(d, p)
    \/ \E d \in CacheDates : CacheGet(d)

SpecCache == InitC /\ [][NextCache]_vars

\* the tools are module-level functions; the agent calls them in any order
InitT ==
    /\ InitFetch /\ InitService(FALSE) /\ InitAgent /\ InitApi("")
    /\ InitPick /\ InitCache /\ InitTools /\ InitPlan /\ InitLate

NextTools ==
    \/ \E d \in Dates, res \in ForecastOutcomes, pts \in RoutePointLists :
          CallGetForecastPoints(d, res, pts)
    \/ \E c \in ToolCoordinates, pts \in ToolPointLists :
          CallPickNearestPoint(c[1], c[2], pts)
    \/ \E prof \in ToolProfiles, fp \in ToolElements : CallComputeIrrigation(prof, fp)

SpecTools == InitT /\ [][NextTools]_vars

\* the arguments of one compute_plan call
InitE ==
    /\ InitFetch /\ InitService(FALSE) /\ InitAgent /\ InitApi("")
    /\ InitPick /\ InitCache /\ InitTools /\ InitLate
    /\ profile \in Profiles
    /\ forecast \in Forecasts
    /\ plan_outcome = NotComputed

NextPlan == Compute

SpecPlan == InitE /\ [][NextPlan]_vars

\* the argument of one parse_forecast_points call
InitX ==
    /\ InitFetch /\ InitService(FALSE) /\ InitAgent /\ InitApi("")
    /\ InitPick /\ InitCache /\ InitTools /\ InitPlan /\ InitDiag /\ InitRepl
    /\ feed \in Feeds
    /\ parsed = NotParsed

NextParse == Parse

SpecParse == InitX /\ [][NextParse]_vars

\* the arguments of one get_selection_diagnostics call
InitD ==
    /\ InitFetch /\ InitService(FALSE) /\ InitAgent /\ InitApi("")
    /\ InitCache /\ InitTools /\ InitPlan /\ InitParse /\ InitRepl
    /\ \E c \in UserCoordinates : user_lat = c[1] /\ user_lon = c[2]
    /\ points \in PointLists(MaxPoints)
    /\ picked = NotPicked
    /\ diagnostics = NotDiagnosed

NextDiag == Diagnose

RECURSIVE LinesUpTo(_)
LinesUpTo(n) ==
    IF n = 0 THEN {<< >>}
    ELSE LinesUpTo(n - 1) \cup {<< l >> \o t : l \in Lines, t \in LinesUpTo(n - 1)}

\* the loop is entered with some lines waiting on stdin
InitR ==
    /\ InitFetch /\ InitService(FALSE) /\ InitAgent /\ InitApi("")
    /\ InitPick /\ InitCache /\ InitTools /\ InitPlan /\ InitParse /\ InitDiag
    /\ repl_pc = "input"
    /\ stdin \in LinesUpTo(MaxLines)
    /\ interrupts \in 0..MaxInterrupts
    /\ user_input = ""
    /\ transcript = "Type your question"

ReplStep(A) ==
    /\ A
    /\ UNCHANGED << fetchVars, serviceVars, agentVars, apiVars, pickVars, cacheVars,
                    toolVars, planVars, parseVars, diagVars >>

NextRepl ==
    \/ ReplStep(ReadLine)
    \/ ReplStep(ReadEndOfInput)
    \/ \E result \in AgentResults : ReplStep(Turn(result))
    \/ ReplStep(PrintError)
    \/ ReplStep(KeyboardInterrupt)

\* the interpreter keeps executing the loop; the user need not interrupt
ReplRuns ==
    /\ WF_vars(ReplStep(ReadLine))
    /\ WF_vars(ReplStep(ReadEndOfInput))
    /\ WF_vars(\E result \in AgentResults : ReplStep(Turn(result)))
    /\ WF_vars(ReplStep(PrintError))

SpecRepl == InitR /\ [][NextRepl]_vars /\ ReplRuns

SpecDiag == InitD /\ [][NextDiag]_vars

---------------------------------------------------------------------------
(* Claims about fetch_forecast_raw, checked under SpecFetch *)

RequestAt(i) == events[i].ev = "request"
SleepAt(i) == events[i].ev = "sleep"
\* the 1-based number of the request at position i of the history
RequestNumber(i) == Cardinality({j \in 1..i : RequestAt(j)})
\* the waits made, in order
Waits == LET sl == SelectSeq(events, LAMBDA e : e.ev = "sleep")
         IN  [i \in 1..Len(sl) |-> sl[i].secs]
AllTransportFailures ==
    \A i \in 1..Len(events) : RequestAt(i) => events[i].resp \in TransportFailures

\* C5: an attempt that receives a non-success HTTP status or a body that is
\* not valid JSON ends the call at once with an upstream-client error built
\* in that attempt: it is the last entry of the history (no request and no
\* wait follows it), whatever max_retries is; every request that is followed
\* by another one failed by timeout or at network level.
C5_NoRetryOnHttpOrJsonError ==
    \A i \in 1..Len(events) :
        /\ (RequestAt(i) /\ events[i].resp \in {"http_error", "bad_json"}) =>
              /\ i = Len(events)
              /\ f_pc = "done"
              /\ f_outcome =
                    MoAGClientError(IF events[i].resp = "http_error"
                                      THEN "http_status" ELSE "json_decode",
                                    RequestNumber(i), f_date)
        /\ (RequestAt(i) /\ i < Len(events)) => events[i].resp \in TransportFailures

\* C5 witness: an HTTP error ended the call on the first of four attempts
C5_Witness ==
    /\ f_pc = "done"
    /\ max_retries = 4
    /\ Len(events) = 1
    /\ events[1].resp = "http_error"
    /\ f_outcome.kind = "MoAGClientError"

\* C6 (safety part): at most max_retries requests are ever sent, and when the
\* call is over for a well-formed date: a successful attempt is the last one
\* and its payload is returned; max_retries transport failures raise the
\* error recorded in the last attempt; with no attempt at all (max_retries 0)
\* no request was sent and the generic "failed after N attempts" error is
\* raised.
C6_Outcome ==
    /\ RequestsSent(events) <= max_retries
    /\ (f_pc = "done" /\ MatchesDatePattern(f_date)) =>
          /\ \A i \in 1..Len(events) :
                (RequestAt(i) /\ events[i].resp = "ok") =>
                    i = Len(events) /\ f_outcome = Returned(events[i].body)
          /\ (AllTransportFailures /\ RequestsSent(events) > 0) =>
                /\ RequestsSent(events) = max_retries
                /\ LET last == CHOOSE i \in 1..Len(events) :
                                   RequestAt(i) /\ RequestNumber(i) = max_retries
                   IN  f_outcome = MoAGClientError(events[last].resp, max_retries, f_date)
          /\ (max_retries = 0) =>
                /\ events = << >>
                /\ f_outcome = MoAGClientError("failed_after_attempts", 0, f_date)

\* C6: fetch_forecast_raw always terminates, with the outcome of C6_Outcome
C6_TerminatesWithinMaxRetries == <>(f_pc = "done") /\ []C6_Outcome

\* C6 witness: three transport failures out of three exhausted the retries
C6_Witness ==
    /\ f_pc = "done"
    /\ max_retries = 3
    /\ RequestsSent(events) = 3
    /\ AllTransportFailures
    /\ f_outcome.kind = "MoAGClientError"
    /\ f_outcome.at = 3

DefaultConfiguration ==
    max_retries = MoagRetries /\ retry_delay = MoagBackoffBaseSeconds
DefaultsExhausted ==
    /\ f_pc = "done"
    /\ DefaultConfiguration
    /\ f_outcome.kind = "MoAGClientError"
    /\ f_outcome.detail \in TransportFailures

\* C8 as stated: with the default configuration a call whose every attempt
\* fails at transport level makes 3 attempts and waits 1 s, 2 s and 3 s.
C8_AsStated ==
    DefaultsExhausted => RequestsSent(events) = 3 /\ Waits = << 1, 2, 3 >>

\* C8 amended: with the default configuration a call whose every attempt
\* fails at transport level makes 3 attempts and waits 1 s after the first
\* and 2 s after the second; no wait follows the third, last attempt.
C8_DefaultBackoff ==
    DefaultsExhausted =>
        /\ RequestsSent(events) = 3
        /\ Waits = << 1, 2 >>
        /\ RequestAt(Len(events))

\* C8 witness: the default call ended after three transport failures
C8_Witness == DefaultsExhausted /\ RequestsSent(events) = 3

---------------------------------------------------------------------------
(* Claims about get_forecast_points, checked under SpecService *)

Started(c) == pc[c] # "idle"
\* the first cache read of the call found a row for the date
FirstReadFoundRow(c) == Len(trail[c]) >= 1 /\ trail[c][1].row
FirstReadFoundNoRow(c) == Len(trail[c]) >= 1 /\ ~trail[c][1].row
\* the offline mode in force: the explicit argument, else the configuration
OfflineInForce(c) ==
    offline_mode[c] = "True" \/ (offline_mode[c] = "None" /\ offline_setting)

\* C1 as stated: when the first cache read of a call finds a row for the
\* date, the call is over with that read: it sent no upstream request and
\* wrote nothing, and its outcome is the parse of the payload of the row, in
\* offline and in online mode alike.
C1_AsStated ==
    \A c \in Callers :
        FirstReadFoundRow(c) =>
            /\ pc[c] = "done"
            /\ Ops(trail[c]) = {"read"}
            /\ Len(trail[c]) = 1
            /\ outcome[c] = ParseForecastPoints(trail[c][1].value)

\* C2: a call in offline mode (explicit argument, else the configuration
\* default) never fetches and never writes the cache; when its cache read
\* finds no row it fails with OfflineModeError naming the date.
C2_OfflineNeverFetches ==
    \A c \in Callers :
        (Started(c) /\ OfflineInForce(c)) =>
            /\ Ops(trail[c]) \subseteq {"read"}
            /\ pc[c] \in {"lookup", "done"}
            /\ pc[c] = "done" =>
                  /\ Len(trail[c]) = 1
                  /\ FirstReadFoundNoRow(c) =>
                        outcome[c] = Raised("OfflineModeError", "cache_miss", 0, date_str[c])

\* C2 witness: offline by the configuration default alone, a miss, the error
C2_Witness ==
    \E c \in Callers :
        /\ pc[c] = "done"
        /\ offline_mode[c] = "None" /\ offline_setting
        /\ FirstReadFoundNoRow(c)
        /\ outcome[c].kind = "OfflineModeError"
        /\ outcome[c].date = ValidDate

\* C3 as stated: a call whose fetch failed with an upstream-client error
\* reads the cache exactly once more; if that read finds a row the outcome
\* is the parse of its payload and not the fetch error; otherwise the fetch
\* error is re-raised unchanged.
C3_AsStated ==
    \A c \in Callers :
        (pc[c] = "done" /\ fetch_error[c] # NoError) =>
            /\ Len(trail[c]) = 3
            /\ trail[c][3].op = "read"
            /\ trail[c][3].row =>
                  /\ outcome[c] = ParseForecastPoints(trail[c][3].value)
                  /\ outcome[c] # fetch_error[c]
            /\ ~trail[c][3].row => outcome[c] = fetch_error[c]

AllCallsFinished == \A c \in Callers : pc[c] \in {"idle", "done"}

\* C4: under every interleaving the row of a date is absent or holds one
\* whole payload that an upstream fetch for that date returned, and the row
\* always holds the payload of the set_forecast that committed last; in
\* particular so once all calls have finished.
C4_LastWriteWins ==
    /\ \A d \in DOMAIN cache :
          \E p \in fetched[d] : cache[d] = Row(p)
    /\ \A d \in DOMAIN last_commit :
          HasRow(cache, d) /\ cache[d] = Row(last_commit[d])
    /\ AllCallsFinished => DOMAIN cache = DOMAIN last_commit

MissedFetchedWrote(c) ==
    /\ pc[c] = "done"
    /\ Len(trail[c]) = 3
    /\ ~trail[c][1].row
    /\ trail[c][2].op = "fetch"
    /\ trail[c][3].op = "write"

\* C4 witness: both callers missed, both fetched (different payloads), both
\* wrote; the row holds the payload written last
C4_Witness ==
    /\ MissedFetchedWrote("c1") /\ MissedFetchedWrote("c2")
    /\ date_str["c1"] = date_str["c2"]
    /\ payload["c1"] = FeedA /\ payload["c2"] = FeedB
    /\ cache[date_str["c1"]] = Row(FeedB)

---------------------------------------------------------------------------
(* Claims about POST /agent/run, checked under SpecAgent *)

\* how many of the timestamps of h are less than a window older than n
CountInWindow(h, n) ==
    Cardinality({j \in 1..Len(h) : h[j] <= n /\ n - h[j] < RATE_LIMIT_WINDOW})

\* the requests accepted before the one in flight was checked
AcceptedBefore ==
    IF r_check = "passed" THEN SubSeq(accepted, 1, Len(accepted) - 1) ELSE accepted

\* C9: over all callers together, no rolling 60-second window holds more
\* than 10 requests that passed the check; the request checked at time now
\* is rejected exactly when 10 requests accepted before it have timestamps
\* t with now - t < 60, whoever sent them.
C9_SharedRollingWindow ==
    /\ \A i \in 1..Len(accepted) :
          CountInWindow(accepted, accepted[i]) <= RATE_LIMIT_MAX_REQUESTS
    /\ r_check # "none" =>
          (r_check = "exceeded" <=>
              CountInWindow(AcceptedBefore, r_now) = RATE_LIMIT_MAX_REQUESTS)

\* C9 witness: a caller none of whose requests was ever accepted is rejected
\* on the requests of others, while requests older than the window had
\* already been accepted and dropped
C9_Witness ==
    /\ r_check = "exceeded"
    /\ r_caller \notin accepted_callers
    /\ Len(accepted) > RATE_LIMIT_MAX_REQUESTS

\* C10: when the rate-limit check reports the limit as exceeded the response
\* is 429 RATE_LIMIT_EXCEEDED and the agent is neither built nor invoked;
\* the agent is built only after the check has passed and invoked only
\* after it was built.
C10_RateLimitBeforeAgent ==
    /\ r_check = "exceeded" =>
          /\ r_pc = "responded"
          /\ response = HttpResponse(429, "RATE_LIMIT_EXCEEDED")
          /\ ~agent_built /\ ~agent_invoked
    /\ agent_built => r_check = "passed"
    /\ agent_invoked => agent_built

\* C10 witness: a request turned away by the check, answered 429
C10_Witness ==
    /\ r_check = "exceeded"
    /\ r_pc = "responded"
    /\ response.status = 429
    /\ ~agent_built

---------------------------------------------------------------------------
(* Claims about the HTTP application, checked under SpecApi *)

Unauthorized == ApiResponse(401, "error", "UNAUTHORIZED")
\* the route logic has run or is about to run for the request in flight
InRouteLogic == q_pc = "route" \/ q_work # {} \/ q_failure # NoFailure
                  \/ q_response.shape \in {"plan", "result", "status", "redirect"}
KeyChecked == q_route \in GuardedRoutes /\ api_auth_key # ""

\* C11: with a non-empty key configured, a request to POST /irrigation/plan
\* or POST /agent/run is in the route logic only if its X-API-Key header
\* equals the configured key; a missing or different header is answered 401
\* UNAUTHORIZED and no forecast, computation or agent work is done for it.
\* With no key configured nothing is answered 401, whatever the header, and
\* GET /health and GET / are never answered 401.
C11_ApiKeyGuardsBothRouters ==
    /\ (KeyChecked /\ InRouteLogic) => q_header = api_auth_key
    /\ (KeyChecked /\ q_header # api_auth_key /\ q_pc \in {"raised", "responded"}) =>
          /\ q_exc = HTTPException(401, EnvelopedDetail("UNAUTHORIZED", "Invalid or missing API Key"))
          /\ q_pc = "responded" => q_response = Unauthorized
          /\ q_work = {}
    /\ (api_auth_key = "" \/ q_route \notin GuardedRoutes) =>
          q_exc.status # 401 /\ q_response.status # 401

\* C11 witness: a key is configured and a request to the plan route that
\* carries another key was answered 401 with no work done
C11_Witness ==
    /\ api_auth_key = "k1"
    /\ q_route = "POST /irrigation/plan"
    /\ q_header = "k2"
    /\ q_pc = "responded"
    /\ q_response = Unauthorized
    /\ q_work = {}

\* the original error text, as it is or behind a prefix
OriginalText == {"str(error)", "Upstream weather service error: str(error)"}
\* the route logic caught q_failure and map_domain_error_to_http has mapped it
Mapped == q_failure # NoFailure /\ q_pc \in {"raised", "responded"}
MappedTo(st, code) ==
    /\ q_exc.exc = "HTTPException"
    /\ q_exc.status = st
    /\ q_exc.detail.shape = "error"
    /\ q_exc.detail.code = code

\* C12: map_domain_error_to_http maps every failure, first match in table
\* order: unknown crop -> 400 UNKNOWN_CROP; any other invalid-input error ->
\* 422 VALIDATION_ERROR; offline cache miss -> 503 OFFLINE_CACHE_MISS;
\* upstream client failure -> 503 UPSTREAM_SERVICE_ERROR; any other failure
\* whose message mentions "rate limit" or "quota" -> 429
\* RATE_LIMIT_EXCEEDED; everything else -> 500 INTERNAL_SERVER_ERROR with a
\* message that carries none of the original text.  A failure of one of the
\* first four kinds is mapped the same whatever its message mentions.
C12_ErrorMappingTable ==
    Mapped =>
        /\ q_failure.cls = "UnknownCropError" => MappedTo(400, "UNKNOWN_CROP")
        /\ q_failure.cls \in {"ValueError", "InvalidCoordinatesError"} =>
              MappedTo(422, "VALIDATION_ERROR")
        /\ q_failure.cls = "OfflineModeError" => MappedTo(503, "OFFLINE_CACHE_MISS")
        /\ q_failure.cls = "MoAGClientError" => MappedTo(503, "UPSTREAM_SERVICE_ERROR")
        /\ (q_failure.cls = "Exception" /\ q_failure.mentions # "none") =>
              MappedTo(429, "RATE_LIMIT_EXCEEDED")
        /\ (q_failure.cls = "Exception" /\ q_failure.mentions = "none") =>
              /\ MappedTo(500, "INTERNAL_SERVER_ERROR")
              /\ q_exc.detail.message \notin OriginalText
        /\ q_failure.cls \in ErrorClasses

\* C12 witness: an invalid-input error whose message mentions a quota was
\* mapped to 422, not to 429
C12_Witness ==
    /\ Mapped
    /\ q_failure = [cls |-> "ValueError", mentions |-> "quota"]
    /\ MappedTo(422, "VALIDATION_ERROR")

\* the crop (farm mode) or plant profile (plant mode) of the request in
\* flight is absent from the coefficient catalog
UnknownCropRequested ==
    /\ q_route = "POST /irrigation/plan"
    /\ \/ q_body.mode = Some("farm")
          /\ LowerStrip(OrEmpty(q_body.crop_name)) \notin DOMAIN CropCatalog
       \/ q_body.mode = Some("plant")
          /\ LowerStrip(OrEmpty(q_body.plant_profile)) \notin DOMAIN PlantCatalog

\* C13, as stated: a POST /irrigation/plan request whose crop_name (farm
\* mode) or plant_profile (plant mode) is absent from the coefficient
\* catalog, and which got as far as compute_plan, is answered 400 with the
\* code UNKNOWN_CROP.
C13_AsStated ==
    (UnknownCropRequested /\ "compute" \in q_work /\ q_pc = "responded") =>
        q_response = ApiResponse(400, "error", "UNKNOWN_CROP")

\* C14, as stated: every response of POST /irrigation/plan and POST
\* /agent/run whose status is not 2xx has a JSON body whose top level is an
\* `error` object carrying a code; none has the shape {detail: ...}.
C14_AsStated ==
    (q_route \in GuardedRoutes /\ q_pc = "responded" /\ q_response.status \notin 200..299) =>
        /\ q_response.shape = "error"
        /\ q_response.code # ""

---------------------------------------------------------------------------
(* Claims about pick_nearest_point, checked under SpecPick *)

\* the lists with the elements of s in another order
Reorderings(s) ==
    {[i \in 1..Len(s) |-> s[f[i]]] :
        f \in {g \in [1..Len(s) -> 1..Len(s)] : \A i, j \in 1..Len(s) : g[i] = g[j] => i = j}}

\* C15, as stated: for fixed user coordinates and a fixed collection of
\* forecast points, every permutation of the input list yields the same
\* returned record (same name, area, coordinates, date and evap_mm).
C15_AsStated ==
    picked.raised = "" =>
        \A q \in Reorderings(points) :
            PickNearestPoint(user_lat, user_lon, q) = PickReturned(picked.point)

ValidPoints == {points[i] : i \in 1..Len(points)} \cap
               {p \in ForecastPoints : IsValidCoordinate(p.lat, p.lon)}
DistanceTo(p) == HaversineKm(user_lat, user_lon, p.lat, p.lon)
Nearest(p) == \A c \in ValidPoints : DistanceTo(p) <= DistanceTo(c)
\* p is within EPSILON_KM of the nearest valid point
Tied(p) == \E n \in ValidPoints : Nearest(n) /\ DistanceTo(p) - DistanceTo(n) <= EPSILON_KM

\* C16: the point pick_nearest_point returns is a valid point at most
\* EPSILON_KM (0.001 km) farther than the nearest one, and no valid point
\* that close has a smaller tie-break tuple (area or "", name or "", lat,
\* lon): a point more than 0.001 km farther than the nearest is never
\* returned, and among the tied points the smallest tuple wins even when it
\* is not the nearest.
C16_EpsilonTie ==
    picked.raised = "" =>
        /\ picked.point \in ValidPoints
        /\ Tied(picked.point)
        /\ \A c \in ValidPoints :
              Tied(c) => ~KeyLess(TieBreakKey(c), TieBreakKey(picked.point))

\* C16 witness: the returned point is not the nearest one (it is half a
\* metre farther and has the smaller name), while a point a metre and a half
\* away with a still smaller tuple was in the list
C16_Witness ==
    /\ picked.raised = ""
    /\ ~Nearest(picked.point)
    /\ \E c \in ValidPoints :
          ~Tied(c) /\ KeyLess(TieBreakKey(c), TieBreakKey(picked.point))

AllOutOfRange == \A i \in 1..Len(points) : ~IsValidCoordinate(points[i].lat, points[i].lon)
PickCalled == picked # NotPicked /\ IsValidCoordinate(user_lat, user_lon) /\ points # << >>

\* C17: for valid user coordinates and a non-empty list of N points,
\* pick_nearest_point raises InvalidCoordinatesError if and only if every
\* point has out-of-range coordinates, and then total_points = N,
\* skipped_count = N and skipped_points lists every input point; otherwise it
\* returns, without error, a point of the list with in-range coordinates.
C17_InvalidCoordinates ==
    PickCalled =>
        /\ picked.raised = "InvalidCoordinatesError" <=> AllOutOfRange
        /\ AllOutOfRange =>
              /\ picked.total_points = Len(points)
              /\ picked.skipped_count = Len(points)
              /\ picked.skipped_points =
                    [i \in 1..Len(points) |->
                        << points[i].name, points[i].geographic_area,
                           points[i].lat, points[i].lon >>]
        /\ ~AllOutOfRange =>
              /\ picked.raised = ""
              /\ picked.point \in ValidPoints

\* C17 witness: both points of the list are out of range and the call
\* raised with both counts equal to two
C17_Witness ==
    /\ PickCalled
    /\ points = << BadLatitude, BadLongitude >>
    /\ picked.raised = "InvalidCoordinatesError"
    /\ picked.total_points = 2
    /\ picked.skipped_count = 2

---------------------------------------------------------------------------
(* Claims about ForecastCache, checked under SpecCache *)

\* the set_forecast calls for date d among the first n calls
SetsFor(d, n) == {i \in 1..n : set_log[i].date = d}

\* the payload of the most recent of them
LastPayload(d, n) ==
    set_log[CHOOSE i \in SetsFor(d, n) : \A j \in SetsFor(d, n) : j <= i].payload

\* the last get_forecast returned the payload of the most recent
\* set_forecast for its date, None when there was none
GetReflectsLastSet ==
    got # NoGet =>
        IF SetsFor(got.date, got.after) = {} THEN got.value = PyNone
        ELSE got.value = LastPayload(got.date, got.after)

\* a step keeps every row, and changes only the row of the date of the
\* set_forecast call it makes
RowsKept ==
    \A d \in DOMAIN cache :
        /\ d \in DOMAIN cache'
        /\ cache'[d] # cache[d] =>
               /\ Len(set_log') = Len(set_log) + 1
               /\ set_log'[Len(set_log')].date = d

---------------------------------------------------------------------------
(* Claims about the agent tools, checked under SpecTools *)

\* C19 as stated: none of the three agent tools ever raises to its caller;
\* for every input, malformed ones included, the tool returns a value.
C19_AsStated == t_result.raised \in {"", "not called"}

---------------------------------------------------------------------------
(* Claims about compute_plan, checked under SpecPlan *)

PlanWasReturned == plan_outcome.raised = ""

\* C20: every plan compute_plan returns has the mode of the profile and
\* exactly one output group populated: in farm mode liters_per_day and
\* liters_per_dunam are set and ml_per_day is null, in plant mode
\* ml_per_day is set and the other two are null; pulses_per_day is 1 or 2.
C20_OneOutputGroup ==
    PlanWasReturned =>
        LET plan == plan_outcome.plan
        IN  /\ plan.mode = profile.mode
            /\ plan.mode = "farm" =>
                   /\ ~IsNone(plan.liters_per_day) /\ ~IsNone(plan.liters_per_dunam)
                   /\ IsNone(plan.ml_per_day)
            /\ plan.mode = "plant" =>
                   /\ ~IsNone(plan.ml_per_day)
                   /\ IsNone(plan.liters_per_day) /\ IsNone(plan.liters_per_dunam)
            /\ plan.mode \in {"farm", "plant"}
            /\ plan.pulses_per_day \in {1, 2}

\* a plant plan with two pulses was returned
C20_Witness ==
    /\ PlanWasReturned
    /\ profile.mode = "plant"
    /\ plan_outcome.plan.pulses_per_day = 2
    /\ plan_outcome.plan.ml_per_day # None

\* the efficiency the priority order gives the profile, in hundredths
ExplicitEfficiency == ~IsNone(profile.efficiency)
ExpectedEfficiency ==
    IF ExplicitEfficiency THEN ValueOf(profile.efficiency)
    ELSE IF profile.irrigation_method \in {Some("drip"), Some("Drip")} THEN 90
    ELSE IF profile.irrigation_method = Some("sprinkler") THEN 75
    ELSE IF profile.mode = "farm" THEN 85 ELSE 100

\* C21: compute_plan uses the explicit efficiency when given, else 0.9 for
\* "drip" and 0.75 for "sprinkler" in any letter case, else 0.85 in farm
\* mode and 1.0 in plant mode; a plan is returned only when that efficiency
\* lies in (0, 1], and an explicit efficiency of 0 fails with ValueError.
C21_EfficiencyPriority ==
    /\ PlanWasReturned =>
          /\ plan_outcome.plan.inputs_used.efficiency = ExpectedEfficiency
          /\ 0 < ExpectedEfficiency /\ ExpectedEfficiency <= 100
    /\ (plan_outcome # NotComputed /\ profile.efficiency = Some(0)) =>
          plan_outcome.raised = "ValueError"

\* a plan was returned for method "Drip" with no explicit efficiency, at
\* 0.9
C21_Witness ==
    /\ PlanWasReturned
    /\ profile.irrigation_method = Some("Drip")
    /\ ~ExplicitEfficiency
    /\ plan_outcome.plan.inputs_used.efficiency = 90

---------------------------------------------------------------------------
(* Claims about parse_forecast_points, checked under SpecParse *)

\* the first of the accepted field names that the location carries
FirstPresent(raws) ==
    IF \A i \in 1..Len(raws) : raws[i] = RawNull THEN RawNull
    ELSE raws[CHOOSE i \in 1..Len(raws) :
                  raws[i] # RawNull /\ \A j \in 1..(i - 1) : raws[j] = RawNull]

Coercible(r) == r.kind \in {"number", "numeric string"}

\* the (location entry, date key) pairs of the feed the claim calls
\* well-formed
WellFormedPairs ==
    {t \in {<< a, i, j >> : a \in 1..Len(feed.areas), i \in 1..MaxLocations, j \in 1..2} :
        LET area == feed.areas[t[1]]
        IN  /\ area.is_list
            /\ t[2] <= Len(area.locations)
            /\ LET location == area.locations[t[2]]
               IN  /\ location.is_dict
                   /\ Coercible(FirstPresent(<< location.lat, location.latitude >>))
                   /\ Coercible(FirstPresent(<< location.long, location.longitude,
                                                location.lon >>))
                   /\ location.data_is_dict
                   /\ t[3] <= Len(location.data)
                   /\ location.data[t[3]].is_dict
                   /\ ~IsNone(Strptime(location.data[t[3]].date_str))
                   /\ Coercible(location.data[t[3]].evap)}

HasRecords == feed.jtype = "object" /\ feed.ter = "object" /\ feed.areas_shape = "object"

\* C22 as stated: parse_forecast_points emits exactly one ForecastPoint
\* for every well-formed (location entry, date key) pair, coordinates of
\* value 0 included, and none for any other pair.
C22_AsStated ==
    (parsed # NotParsed /\ HasRecords) =>
        /\ parsed.raised = ""
        /\ Len(parsed.points) = Cardinality(WellFormedPairs)

\* tempEvapRecord is missing or is no dictionary, or areas is
TraversalStops ==
    /\ feed.jtype = "object"
    /\ feed.ter # "object" \/ feed.areas_shape # "object"

\* C25 as stated: parse_forecast_points returns an empty list, without
\* raising, whenever tempEvapRecord is missing or is not a dictionary (a
\* non-empty list or string, for example) and whenever areas is missing or
\* is not a dictionary.
C25_AsStated ==
    (parsed # NotParsed /\ TraversalStops) => parsed = ParseReturned(<< >>)

---------------------------------------------------------------------------
(* Claims about get_selection_diagnostics, checked under SpecDiag *)

Diagnosed == diagnostics # NotDiagnosed

ReportAddsUp ==
    /\ diagnostics.total_points = Len(points)
    /\ diagnostics.valid_points + diagnostics.skipped_count = diagnostics.total_points
    /\ diagnostics.skipped_count = Len(diagnostics.skipped_points)

\* C24 as stated: get_selection_diagnostics never raises; for every user
\* coordinate pair, in range or not, and every point list it returns a
\* report with total_points the list length and valid_points +
\* skipped_count = total_points.
C24_AsStated == Diagnosed => (diagnostics.raised = "" /\ ReportAddsUp)

\* C24: get_selection_diagnostics raises ValueError when the user
\* coordinates are out of range; for in-range user coordinates and every
\* point list, the empty list included, it returns a report with
\* total_points the list length and valid_points + skipped_count =
\* total_points.
C24_Diagnostics ==
    Diagnosed =>
        IF IsValidCoordinate(user_lat, user_lon)
          THEN diagnostics.raised = "" /\ ReportAddsUp
          ELSE diagnostics.raised = "ValueError"

\* a report on three points of which one was skipped
C24_Witness ==
    /\ diagnostics.raised = ""
    /\ diagnostics.total_points = 3
    /\ diagnostics.valid_points = 2
    /\ diagnostics.skipped_count = 1

---------------------------------------------------------------------------
(* Further claims about get_forecast_points, checked under SpecService *)

\* C26 as stated: get_forecast_points called with a date string that does
\* not match YYYY-MM-DD fails with ValueError in offline mode as well as in
\* online mode, and in neither mode writes a cache row.
C26_AsStated ==
    \A c \in Callers :
        (pc[c] = "done" /\ date_str[c] = BadDate) =>
            /\ outcome[c].kind = "ValueError"
            /\ "write" \notin Ops(trail[c])

\* C27 as stated: in online mode a cache miss followed by a successful
\* fetch writes the fetched payload under the requested date before it is
\* parsed; when the call ends, whatever the parser did, get_forecast(date)
\* returns that payload, so that a later call for the date is served from
\* the cache.
C27_AsStated ==
    \A c \in Callers :
        MissedFetchedWrote(c) =>
            /\ HasRow(cache, date_str[c])
            /\ GetForecast(cache, date_str[c]) = payload[c]
            /\ GetForecast(cache, date_str[c]) # PyNone

---------------------------------------------------------------------------
(* Further claims about the HTTP application, checked under SpecApi *)

PlanSent == q_response.status = 200 /\ q_response.shape = "plan"

\* C28 as stated: every 200 response of POST /irrigation/plan is computed
\* from a forecast record of the requested day: chosen_point.date and
\* plan.date equal date_used, also when the points of that date hold
\* records of several date keys for one station.
C28_AsStated ==
    PlanSent =>
        /\ q_response.chosen_point_date = q_response.date_used
        /\ q_response.plan_date = q_response.date_used

---------------------------------------------------------------------------
(* The interactive loop, checked under SpecRepl *)

AtEndOfInput == repl_pc = "input" /\ stdin = << >>

\* C23 as stated: the interactive loop terminates; in particular, once
\* stdin is at end-of-input the loop eventually stops instead of iterating
\* forever.
C23_AsStated == AtEndOfInput ~> (repl_pc = "stopped")

---------------------------------------------------------------------------
(* The rate limiter over time, checked under SpecAgent *)

StoredFor(hist, key) == IF key \in DOMAIN hist THEN hist[key] ELSE << >>
Stamps(h) == {h[i] : i \in 1..Len(h)}
Oldest(h) == CHOOSE t \in Stamps(h) : \A u \in Stamps(h) : t <= u

HistoryBounded ==
    \A k \in DOMAIN request_history : Len(request_history[k]) <= RATE_LIMIT_MAX_REQUESTS

\* the step on which check_rate_limit runs for the request in r_caller
CheckStep == r_pc = "received" /\ r_pc' # "received"

\* a request at least a window after the oldest stamp still stored passes
RecoversAfterWindow ==
    LET h == StoredFor(request_history, ClientKey(r_caller))
    IN  (CheckStep /\ h # << >> /\ now - Oldest(h) >= RATE_LIMIT_WINDOW)
            => /\ r_check' = "passed"
               /\ now \in Stamps(StoredFor(request_history', ClientKey(r_caller)))

\* a refused request adds nothing to the stored history
RefusedNotRecorded ==
    LET h == StoredFor(request_history, ClientKey(r_caller))
        g == StoredFor(request_history', ClientKey(r_caller))
    IN  (CheckStep /\ r_check' = "exceeded")
            => Len(g) <= Len(h) /\ Stamps(g) \subseteq Stamps(h)

\* C29: requests refused by the rate limiter are not recorded, so the
\* limiter recovers: the stored history of a client never holds more than
\* 10 timestamps, and a request arriving at least 60 seconds after the
\* oldest accepted request still counted is accepted, however many refused
\* requests were sent in between.
C29_LimiterRecovers ==
    [](HistoryBounded) /\ [][RecoversAfterWindow /\ RefusedNotRecorded]_vars

\* ten requests accepted at time 0, requests refused at 0 and half a window
\* later, and the request a whole window later passes
C29_Witness ==
    /\ r_check = "passed"
    /\ r_now = RATE_LIMIT_WINDOW
    /\ Len(accepted) > RATE_LIMIT_MAX_REQUESTS
    /\ \A i \in 1..RATE_LIMIT_MAX_REQUESTS : accepted[i] = 0
    /\ {0, RATE_LIMIT_WINDOW \div 2} \subseteq rejected_at

---------------------------------------------------------------------------
(* The rate-limit budget of POST /agent/run, checked under SpecApi *)

DefaultHistory(hist) == StoredFor(hist, "default")

KeyAccepted == api_auth_key = "" \/ q_header = api_auth_key
MessageAccepted ==
    /\ q_body.message # None
    /\ Characters(ValueOf(q_body.message)) \in 1..5000

\* the stored history changes only for a request to the agent route whose
\* key and message were accepted
OnlyAdmittedCounted ==
    request_history' # request_history =>
        q_route = "POST /agent/run" /\ KeyAccepted /\ MessageAccepted

\* a request that leaves the route logic of the agent route without the
\* limiter's 429 has its time stamp stored, whether the agent failed or not
PassedIsCounted ==
    (q_pc = "route" /\ q_route = "POST /agent/run" /\ q_pc' # "route"
        /\ q_work' = {"agent"})
      => /\ Len(DefaultHistory(request_history')) =
               Len(CurrentWindow(request_history, "default", now)) + 1
         /\ now \in Stamps(DefaultHistory(request_history'))

\* a request answered 401, or answered 422 by the schema validation, leaves
\* the history as it was
RefusalsFree ==
    (q_pc' = "raised" /\ q_pc \in {"received", "validate"}) =>
        request_history' = request_history

\* C30: only requests that have passed the API-key check and the schema
\* validation are counted against the /agent/run budget: a request answered
\* 401 or 422 (message empty or longer than 5000 characters) never consumes
\* a slot, whereas a request that passes the rate-limit check consumes a
\* slot even when building or running the agent then fails.
C30_OnlyAdmittedCounted ==
    [][OnlyAdmittedCounted /\ PassedIsCounted /\ RefusalsFree]_vars

\* one request was counted, and a later request with the right key and a
\* message of 5001 characters is answered 422 while the count is still one
C30_Witness ==
    /\ q_route = "POST /agent/run"
    /\ q_pc = "responded"
    /\ q_response.status = 422
    /\ q_exc = RequestValidationError
    /\ q_body.message = Some(LongMessage)
    /\ api_auth_key # ""
    /\ Len(DefaultHistory(request_history)) = 1

=============================================================================
